---------------------------- MODULE Spec2Model ----------------------------
(***************************************************************************)
(* The moderation ledger (contract Moderation) and the governance engine   *)
(* (contract Governance) as one state machine.  Every external function of *)
(* the two contracts is one action.  The require chain of a function is an *)
(* operator (...Check) that yields the revert reason of the first failing  *)
(* check, or OK; a transaction that reverts leaves the whole state as it   *)
(* was.  Time is counted in days and token amounts in whole tokens.  The   *)
(* 256-bit width of the contracts' counters is far above every sum the     *)
(* bounded token supply can produce, so checked arithmetic never panics in *)
(* the modelled range.                                                     *)
(***************************************************************************)
EXTENDS Integers, Sequences, FiniteSets, Bags, TLC

VARIABLES
    now,                \* block.timestamp of the transaction being mined
    balanceOf,          \* governanceToken.balanceOf
    modRoles,           \* Moderation: AccessControl role members
    modPaused,          \* Moderation: Pausable flag
    moderationRecords,  \* Moderation: ModerationRecord[] (record id k is entry k+1)
    contentToRecords,   \* Moderation: contentId -> record ids
    modEvents,          \* Moderation: emitted events (bag)
    govRoles,           \* Governance: AccessControl role members
    govPaused,          \* Governance: Pausable flag
    proposalCount,      \* Governance: proposalCount
    proposals,          \* Governance: proposals mapping
    votingPeriod,       \* Governance: votingPeriod
    executionDelay,     \* Governance: executionDelay
    quorum,             \* Governance: quorum
    govEvents,          \* Governance: emitted events (bag)
    dao,                \* DAOService: its configuration, last call and outcome
    governor,           \* the governor behind DAOService: votes received and mined
    voteCalls           \* DAOService.castVote calls in progress, by where each stands

modVars == <<modRoles, modPaused, moderationRecords, contentToRecords, modEvents>>
govVars == <<govRoles, govPaused, proposalCount, proposals, votingPeriod,
             executionDelay, quorum, govEvents>>
votingVars == <<governor, voteCalls>>
vars == <<now, balanceOf, dao, votingVars, votingVars, modVars, govVars>>

---------------------------------------------------------------------------
(* Bounds of the model *)

MaxRecords == 2
MaxProposals == 2
MaxTime == 4
MaxStatusCode == 8

---------------------------------------------------------------------------
(* Accounts, roles, revert reasons *)

Deployer == "owner"
Accounts == {"owner", "acct1", "acct2"}

DEFAULT_ADMIN_ROLE == "DEFAULT_ADMIN_ROLE"
ADMIN_ROLE == "ADMIN_ROLE"
MODERATOR_ROLE == "MODERATOR_ROLE"
PROPOSER_ROLE == "PROPOSER_ROLE"

OK == "ok"
ErrAccess == "AccessControl: account is missing role"
ErrPaused == "Pausable: paused"
ErrNotPaused == "Pausable: not paused"

hasRole(roles, role, account) == account \in roles[role]

\* A reverted transaction: the EVM rolls every write back.
Reverted == UNCHANGED vars

Emit(events, e) == events (+) SetToBag({e})

---------------------------------------------------------------------------
(* Moderation *)

NoRecords == << >>

\* addModerationRecord without its onlyRole(MODERATOR_ROLE) modifier.
addModerationRecordCheckNoRole(sender, contentId, contentHash, confidenceScore) ==
    IF modPaused THEN ErrPaused
    ELSE IF contentId = "" THEN "Content ID cannot be empty"
    ELSE IF contentHash = "" THEN "Content hash cannot be empty"
    ELSE IF ~(confidenceScore <= 1000) THEN "Confidence score must be between 0-1000"
    ELSE OK

\* The require chain of addModerationRecord: the first failing check, or OK.
addModerationRecordCheck(sender, contentId, contentHash, confidenceScore) ==
    IF ~hasRole(modRoles, MODERATOR_ROLE, sender) THEN ErrAccess
    ELSE IF modPaused THEN ErrPaused
    ELSE IF contentId = "" THEN "Content ID cannot be empty"
    ELSE IF contentHash = "" THEN "Content hash cannot be empty"
    ELSE IF ~(confidenceScore <= 1000) THEN "Confidence score must be between 0-1000"
    ELSE OK

\* A record built with contentId and contentHash interchanged.
NewRecordSwapped(sender, contentId, contentHash, isFlagged, categories, confidenceScore, reason) ==
    [contentId |-> contentHash,
     contentHash |-> contentId,
     isFlagged |-> isFlagged,
     categories |-> categories,
     confidenceScore |-> confidenceScore,
     moderator |-> sender,
     timestamp |-> now,
     isOverruled |-> FALSE,
     reason |-> reason]

NewRecord(sender, contentId, contentHash, isFlagged, categories, confidenceScore, reason) ==
    [contentId |-> contentId,
     contentHash |-> contentHash,
     isFlagged |-> isFlagged,
     categories |-> categories,
     confidenceScore |-> confidenceScore,
     moderator |-> sender,
     timestamp |-> now,
     isOverruled |-> FALSE,
     reason |-> reason]

\* An id counted from one.
NextRecordIdFromOne == Len(moderationRecords) + 1

\* uint256 recordId = moderationRecords.length: the id addModerationRecord returns.
NextRecordId == Len(moderationRecords)

addModerationRecord(sender, contentId, contentHash, isFlagged, categories, confidenceScore, reason) ==
    LET err == addModerationRecordCheck(sender, contentId, contentHash, confidenceScore)
        recordId == NextRecordId
    IN  IF err # OK
        THEN Reverted
        ELSE /\ moderationRecords' = Append(moderationRecords,
                    NewRecord(sender, contentId, contentHash, isFlagged, categories,
                              confidenceScore, reason))
             /\ contentToRecords' = [contentToRecords EXCEPT
                    ![contentId] = Append(@, recordId)]
             /\ modEvents' = Emit(modEvents,
                    [name |-> "ContentModerated", recordId |-> recordId,
                     contentId |-> contentId, isFlagged |-> isFlagged,
                     timestamp |-> now])
             /\ UNCHANGED <<now, balanceOf, dao, votingVars, modRoles, modPaused, govVars>>

\* overruleModeration validating the reason before the record's state.
overruleModerationCheckReasonFirst(sender, recordId, reason) ==
    IF ~hasRole(modRoles, ADMIN_ROLE, sender) THEN ErrAccess
    ELSE IF modPaused THEN ErrPaused
    ELSE IF ~(recordId < Len(moderationRecords)) THEN "Record does not exist"
    ELSE IF reason = "" THEN "Reason required for overruling"
    ELSE IF moderationRecords[recordId + 1].isOverruled THEN "Already overruled"
    ELSE OK

\* The require chain of overruleModeration.
overruleModerationCheck(sender, recordId, reason) ==
    IF ~hasRole(modRoles, ADMIN_ROLE, sender) THEN ErrAccess
    ELSE IF modPaused THEN ErrPaused
    ELSE IF ~(recordId < Len(moderationRecords)) THEN "Record does not exist"
    ELSE IF moderationRecords[recordId + 1].isOverruled THEN "Already overruled"
    ELSE IF reason = "" THEN "Reason required for overruling"
    ELSE OK

\* An overrule that is committed without its ModerationOverruled event.
overruleModerationNoEvent(sender, recordId, reason) ==
    LET err == overruleModerationCheck(sender, recordId, reason)
    IN  IF err # OK
        THEN Reverted
        ELSE /\ moderationRecords' = [moderationRecords EXCEPT
                    ![recordId + 1].isOverruled = TRUE,
                    ![recordId + 1].reason = reason]
             /\ UNCHANGED <<now, balanceOf, dao, votingVars, modRoles, modPaused, contentToRecords,
                            modEvents, govVars>>

\* An overrule that also clears the record's flag.
overruleModerationClearsFlag(sender, recordId, reason) ==
    LET err == overruleModerationCheck(sender, recordId, reason)
    IN  IF err # OK
        THEN Reverted
        ELSE /\ moderationRecords' = [moderationRecords EXCEPT
                    ![recordId + 1].isOverruled = TRUE,
                    ![recordId + 1].isFlagged = FALSE,
                    ![recordId + 1].reason = reason]
             /\ modEvents' = Emit(modEvents,
                    [name |-> "ModerationOverruled", recordId |-> recordId,
                     moderator |-> sender, reason |-> reason, timestamp |-> now])
             /\ UNCHANGED <<now, balanceOf, dao, votingVars, modRoles, modPaused, contentToRecords,
                            govVars>>

overruleModeration(sender, recordId, reason) ==
    LET err == overruleModerationCheck(sender, recordId, reason)
    IN  IF err # OK
        THEN Reverted
        ELSE /\ moderationRecords' = [moderationRecords EXCEPT
                    ![recordId + 1].isOverruled = TRUE,
                    ![recordId + 1].reason = reason]
             /\ modEvents' = Emit(modEvents,
                    [name |-> "ModerationOverruled", recordId |-> recordId,
                     moderator |-> sender, reason |-> reason, timestamp |-> now])
             /\ UNCHANGED <<now, balanceOf, dao, votingVars, modRoles, modPaused, contentToRecords,
                            govVars>>

\* Queries.  A failing query is the value Failure.
Failure(err) == [failed |-> TRUE, err |-> err]

getModerationRecord(recordId) ==
    IF ~(recordId < Len(moderationRecords)) THEN Failure("Record does not exist")
    ELSE LET record == moderationRecords[recordId + 1]
         IN  [failed |-> FALSE,
              contentId |-> record.contentId,
              contentHash |-> record.contentHash,
              isFlagged |-> record.isFlagged,
              categories |-> record.categories,
              confidenceScore |-> record.confidenceScore,
              moderator |-> record.moderator,
              timestamp |-> record.timestamp,
              isOverruled |-> record.isOverruled,
              reason |-> record.reason]

\* A lookup that answers with every record id, whatever the content.
getRecordsForContentAll(contentId) == [i \in 1..Len(moderationRecords) |-> i - 1]

getRecordsForContent(contentId) == contentToRecords[contentId]

getTotalRecords == Len(moderationRecords)

\* Pausable.whenNotPaused / whenPaused behind onlyRole(ADMIN_ROLE).
modPauseCheck(sender) ==
    IF ~hasRole(modRoles, ADMIN_ROLE, sender) THEN ErrAccess
    ELSE IF modPaused THEN ErrPaused
    ELSE OK

\* A pause that reaches the governance engine as well.
modPauseBoth(sender) ==
    IF modPauseCheck(sender) # OK
    THEN Reverted
    ELSE /\ modPaused' = TRUE
         /\ govPaused' = TRUE
         /\ UNCHANGED <<now, balanceOf, dao, votingVars, modRoles, moderationRecords, contentToRecords,
                        modEvents, govRoles, proposalCount, proposals, votingPeriod,
                        executionDelay, quorum, govEvents>>

modPause(sender) ==
    IF modPauseCheck(sender) # OK
    THEN Reverted
    ELSE /\ modPaused' = TRUE
         /\ UNCHANGED <<now, balanceOf, dao, votingVars, modRoles, moderationRecords, contentToRecords,
                        modEvents, govVars>>

modUnpauseCheck(sender) ==
    IF ~hasRole(modRoles, ADMIN_ROLE, sender) THEN ErrAccess
    ELSE IF ~modPaused THEN ErrNotPaused
    ELSE OK

modUnpause(sender) ==
    IF modUnpauseCheck(sender) # OK
    THEN Reverted
    ELSE /\ modPaused' = FALSE
         /\ UNCHANGED <<now, balanceOf, dao, votingVars, modRoles, moderationRecords, contentToRecords,
                        modEvents, govVars>>

\* AccessControl.grantRole / revokeRole: every role's admin role is
\* DEFAULT_ADMIN_ROLE, which is what the inner call checks.
grantRole(roles, role, account) == [roles EXCEPT ![role] = @ \cup {account}]

revokeRole(roles, role, account) == [roles EXCEPT ![role] = @ \ {account}]

addModeratorCheck(sender) ==
    IF ~hasRole(modRoles, ADMIN_ROLE, sender) THEN ErrAccess
    ELSE IF ~hasRole(modRoles, DEFAULT_ADMIN_ROLE, sender) THEN ErrAccess
    ELSE OK

addModerator(sender, account) ==
    IF addModeratorCheck(sender) # OK
    THEN Reverted
    ELSE /\ modRoles' = grantRole(modRoles, MODERATOR_ROLE, account)
         /\ UNCHANGED <<now, balanceOf, dao, votingVars, modPaused, moderationRecords, contentToRecords,
                        modEvents, govVars>>

removeModerator(sender, account) ==
    IF addModeratorCheck(sender) # OK
    THEN Reverted
    ELSE /\ modRoles' = revokeRole(modRoles, MODERATOR_ROLE, account)
         /\ UNCHANGED <<now, balanceOf, dao, votingVars, modPaused, moderationRecords, contentToRecords,
                        modEvents, govVars>>

\* The public grantRole / revokeRole / renounceRole that the contract inherits
\* from AccessControl: the first two are open to the holders of the role's
\* admin role (DEFAULT_ADMIN_ROLE for every role), the third to the account
\* itself.  None of them is behind the pause gate.
\* A grantRole that any caller may use.
modGrantRoleCheckAnyCaller(sender) == OK

modGrantRoleCheck(sender) ==
    IF ~hasRole(modRoles, DEFAULT_ADMIN_ROLE, sender) THEN ErrAccess
    ELSE OK

modGrantRole(sender, role, account) ==
    IF modGrantRoleCheck(sender) # OK
    THEN Reverted
    ELSE /\ modRoles' = grantRole(modRoles, role, account)
         /\ UNCHANGED <<now, balanceOf, dao, votingVars, modPaused, moderationRecords, contentToRecords,
                        modEvents, govVars>>

modRevokeRole(sender, role, account) ==
    IF modGrantRoleCheck(sender) # OK
    THEN Reverted
    ELSE /\ modRoles' = revokeRole(modRoles, role, account)
         /\ UNCHANGED <<now, balanceOf, dao, votingVars, modPaused, moderationRecords, contentToRecords,
                        modEvents, govVars>>

\* A renounceRole that may be called for another account.
modRenounceRoleCheckAnyAccount(sender, account) == OK

modRenounceRoleCheck(sender, account) ==
    IF account # sender THEN "AccessControl: can only renounce roles for self"
    ELSE OK

modRenounceRole(sender, role, account) ==
    IF modRenounceRoleCheck(sender, account) # OK
    THEN Reverted
    ELSE /\ modRoles' = revokeRole(modRoles, role, account)
         /\ UNCHANGED <<now, balanceOf, dao, votingVars, modPaused, moderationRecords, contentToRecords,
                        modEvents, govVars>>

---------------------------------------------------------------------------
(* Governance *)

VoteNone == "None"
VoteFor == "For"
VoteAgainst == "Against"

InitialVotingPeriod == 3
InitialExecutionDelay == 1
InitialQuorum == 100

\* The value every key of the proposals mapping holds before it is written.
EmptyProposal ==
    [id |-> 0, title |-> "", description |-> "", proposer |-> "0x0",
     startTime |-> 0, endTime |-> 0, forVotes |-> 0, againstVotes |-> 0,
     executed |-> FALSE, passed |-> FALSE,
     votes |-> [a \in Accounts |-> VoteNone]]

createProposalCheck(sender, title, description) ==
    IF ~hasRole(govRoles, PROPOSER_ROLE, sender) THEN ErrAccess
    ELSE IF govPaused THEN ErrPaused
    ELSE IF title = "" THEN "Title cannot be empty"
    ELSE IF description = "" THEN "Description cannot be empty"
    ELSE OK

createProposal(sender, title, description) ==
    LET proposalId == proposalCount
    IN  IF createProposalCheck(sender, title, description) # OK
        THEN Reverted
        ELSE /\ proposalCount' = proposalCount + 1
             /\ proposals' = [proposals EXCEPT ![proposalId] =
                    [@ EXCEPT !.id = proposalId,
                              !.title = title,
                              !.description = description,
                              !.proposer = sender,
                              !.startTime = now,
                              !.endTime = now + votingPeriod]]
             /\ govEvents' = Emit(govEvents,
                    [name |-> "ProposalCreated", proposalId |-> proposalId,
                     proposer |-> sender, title |-> title, startTime |-> now,
                     endTime |-> now + votingPeriod])
             /\ UNCHANGED <<now, balanceOf, dao, votingVars, modVars, govRoles, govPaused, votingPeriod,
                            executionDelay, quorum>>

\* castVote without whenNotPaused.
castVoteCheckNoPauseGate(sender, proposalId) ==
    IF ~(proposalId < proposalCount) THEN "Proposal does not exist"
    ELSE IF ~(now <= proposals[proposalId].endTime) THEN "Voting has ended"
    ELSE IF ~(proposals[proposalId].votes[sender] = VoteNone) THEN "Already voted"
    ELSE IF ~(balanceOf[sender] > 0) THEN "No voting power"
    ELSE OK

\* castVote without the "Already voted" requirement.
castVoteCheckNoRepeatGuard(sender, proposalId) ==
    IF govPaused THEN ErrPaused
    ELSE IF ~(proposalId < proposalCount) THEN "Proposal does not exist"
    ELSE IF ~(now <= proposals[proposalId].endTime) THEN "Voting has ended"
    ELSE IF ~(balanceOf[sender] > 0) THEN "No voting power"
    ELSE OK

\* castVote with the window closed already at endTime.
castVoteCheckBeforeEndTime(sender, proposalId) ==
    IF govPaused THEN ErrPaused
    ELSE IF ~(proposalId < proposalCount) THEN "Proposal does not exist"
    ELSE IF ~(now < proposals[proposalId].endTime) THEN "Voting has ended"
    ELSE IF ~(proposals[proposalId].votes[sender] = VoteNone) THEN "Already voted"
    ELSE IF ~(balanceOf[sender] > 0) THEN "No voting power"
    ELSE OK

\* castVote without the "Voting has ended" requirement.
castVoteCheckNoWindow(sender, proposalId) ==
    IF govPaused THEN ErrPaused
    ELSE IF ~(proposalId < proposalCount) THEN "Proposal does not exist"
    ELSE IF ~(proposals[proposalId].votes[sender] = VoteNone) THEN "Already voted"
    ELSE IF ~(balanceOf[sender] > 0) THEN "No voting power"
    ELSE OK

castVoteCheck(sender, proposalId) ==
    IF govPaused THEN ErrPaused
    ELSE IF ~(proposalId < proposalCount) THEN "Proposal does not exist"
    ELSE IF ~(now <= proposals[proposalId].endTime) THEN "Voting has ended"
    ELSE IF ~(proposals[proposalId].votes[sender] = VoteNone) THEN "Already voted"
    ELSE IF ~(balanceOf[sender] > 0) THEN "No voting power"
    ELSE OK

\* A castVote that records the vote before it learns that the caller has no
\* voting power and then returns without undoing the write.
castVoteNoRollback(sender, proposalId, support) ==
    LET weight == balanceOf[sender]
        voteType == IF support THEN VoteFor ELSE VoteAgainst
    IN  IF castVoteCheck(sender, proposalId) \notin {OK, "No voting power"}
        THEN Reverted
        ELSE /\ proposals' = [proposals EXCEPT ![proposalId] =
                    [@ EXCEPT !.votes[sender] = voteType,
                              !.forVotes = IF support THEN @ + weight ELSE @,
                              !.againstVotes = IF support THEN @ ELSE @ + weight]]
             /\ govEvents' = IF weight > 0
                             THEN Emit(govEvents,
                                    [name |-> "VoteCast", proposalId |-> proposalId,
                                     voter |-> sender, vote |-> voteType, weight |-> weight])
                             ELSE govEvents
             /\ UNCHANGED <<now, balanceOf, dao, votingVars, modVars, govRoles, govPaused, proposalCount,
                            votingPeriod, executionDelay, quorum>>

\* A castVote that counts one vote per voter whatever the balance.
castVoteUnitWeight(sender, proposalId, support) ==
    LET weight == 1
        voteType == IF support THEN VoteFor ELSE VoteAgainst
    IN  IF castVoteCheck(sender, proposalId) # OK
        THEN Reverted
        ELSE /\ proposals' = [proposals EXCEPT ![proposalId] =
                    [@ EXCEPT !.votes[sender] = voteType,
                              !.forVotes = IF support THEN @ + weight ELSE @,
                              !.againstVotes = IF support THEN @ ELSE @ + weight]]
             /\ govEvents' = Emit(govEvents,
                    [name |-> "VoteCast", proposalId |-> proposalId, voter |-> sender,
                     vote |-> voteType, weight |-> weight])
             /\ UNCHANGED <<now, balanceOf, dao, votingVars, modVars, govRoles, govPaused, proposalCount,
                            votingPeriod, executionDelay, quorum>>

castVote(sender, proposalId, support) ==
    LET weight == balanceOf[sender]
        voteType == IF support THEN VoteFor ELSE VoteAgainst
    IN  IF castVoteCheck(sender, proposalId) # OK
        THEN Reverted
        ELSE /\ proposals' = [proposals EXCEPT ![proposalId] =
                    [@ EXCEPT !.votes[sender] = voteType,
                              !.forVotes = IF support THEN @ + weight ELSE @,
                              !.againstVotes = IF support THEN @ ELSE @ + weight]]
             /\ govEvents' = Emit(govEvents,
                    [name |-> "VoteCast", proposalId |-> proposalId, voter |-> sender,
                     vote |-> voteType, weight |-> weight])
             /\ UNCHANGED <<now, balanceOf, dao, votingVars, modVars, govRoles, govPaused, proposalCount,
                            votingPeriod, executionDelay, quorum>>

\* executeProposal without the "Already executed" requirement.
executeProposalCheckNoExecutedGuard(sender, proposalId) ==
    IF govPaused THEN ErrPaused
    ELSE IF ~(proposalId < proposalCount) THEN "Proposal does not exist"
    ELSE IF ~(now > proposals[proposalId].endTime) THEN "Voting has not ended"
    ELSE IF ~(proposals[proposalId].forVotes + proposals[proposalId].againstVotes >= quorum)
         THEN "Quorum not reached"
    ELSE OK

\* executeProposal admitting the last instant of the voting window.
executeProposalCheckAtEndTime(sender, proposalId) ==
    IF govPaused THEN ErrPaused
    ELSE IF ~(proposalId < proposalCount) THEN "Proposal does not exist"
    ELSE IF ~(now >= proposals[proposalId].endTime) THEN "Voting has not ended"
    ELSE IF proposals[proposalId].executed THEN "Already executed"
    ELSE IF ~(proposals[proposalId].forVotes + proposals[proposalId].againstVotes >= quorum)
         THEN "Quorum not reached"
    ELSE OK

\* executeProposal measuring the votes against the quorum the engine was
\* deployed with instead of the current one.
executeProposalCheckCreationQuorum(sender, proposalId) ==
    IF govPaused THEN ErrPaused
    ELSE IF ~(proposalId < proposalCount) THEN "Proposal does not exist"
    ELSE IF ~(now > proposals[proposalId].endTime) THEN "Voting has not ended"
    ELSE IF proposals[proposalId].executed THEN "Already executed"
    ELSE IF ~(proposals[proposalId].forVotes + proposals[proposalId].againstVotes
                >= InitialQuorum)
         THEN "Quorum not reached"
    ELSE OK

executeProposalCheck(sender, proposalId) ==
    IF govPaused THEN ErrPaused
    ELSE IF ~(proposalId < proposalCount) THEN "Proposal does not exist"
    ELSE IF ~(now > proposals[proposalId].endTime) THEN "Voting has not ended"
    ELSE IF proposals[proposalId].executed THEN "Already executed"
    ELSE IF ~(proposals[proposalId].forVotes + proposals[proposalId].againstVotes >= quorum)
         THEN "Quorum not reached"
    ELSE OK

\* A pass rule that lets a tie pass.
PassedOnTie(proposal) == proposal.forVotes >= proposal.againstVotes

\* bool passed = proposal.forVotes > proposal.againstVotes
Passed(proposal) == proposal.forVotes > proposal.againstVotes

executeProposal(sender, proposalId) ==
    IF executeProposalCheck(sender, proposalId) # OK
    THEN Reverted
    ELSE LET passed == Passed(proposals[proposalId])
         IN  /\ proposals' = [proposals EXCEPT ![proposalId] =
                    [@ EXCEPT !.executed = TRUE, !.passed = passed]]
             /\ govEvents' = Emit(govEvents,
                    [name |-> "ProposalExecuted", proposalId |-> proposalId,
                     passed |-> passed])
             /\ UNCHANGED <<now, balanceOf, dao, votingVars, modVars, govRoles, govPaused, proposalCount,
                            votingPeriod, executionDelay, quorum>>

getProposal(proposalId) ==
    IF ~(proposalId < proposalCount) THEN Failure("Proposal does not exist")
    ELSE LET proposal == proposals[proposalId]
         IN  [failed |-> FALSE,
              id |-> proposal.id,
              title |-> proposal.title,
              description |-> proposal.description,
              proposer |-> proposal.proposer,
              startTime |-> proposal.startTime,
              endTime |-> proposal.endTime,
              forVotes |-> proposal.forVotes,
              againstVotes |-> proposal.againstVotes,
              executed |-> proposal.executed,
              passed |-> proposal.passed]

getVoteStatus(proposalId, voter) ==
    IF ~(proposalId < proposalCount) THEN Failure("Proposal does not exist")
    ELSE [failed |-> FALSE, vote |-> proposals[proposalId].votes[voter]]

getProposalCount == proposalCount

\* setVotingPeriod without its positivity requirement.
setVotingPeriodCheckAnyValue(sender, newVotingPeriod) ==
    IF ~hasRole(govRoles, ADMIN_ROLE, sender) THEN ErrAccess
    ELSE OK

setVotingPeriodCheck(sender, newVotingPeriod) ==
    IF ~hasRole(govRoles, ADMIN_ROLE, sender) THEN ErrAccess
    ELSE IF ~(newVotingPeriod > 0) THEN "Voting period must be positive"
    ELSE OK

setVotingPeriod(sender, newVotingPeriod) ==
    IF setVotingPeriodCheck(sender, newVotingPeriod) # OK
    THEN Reverted
    ELSE /\ votingPeriod' = newVotingPeriod
         /\ UNCHANGED <<now, balanceOf, dao, votingVars, modVars, govRoles, govPaused, proposalCount,
                        proposals, executionDelay, quorum, govEvents>>

setExecutionDelayCheck(sender, newExecutionDelay) ==
    IF ~hasRole(govRoles, ADMIN_ROLE, sender) THEN ErrAccess
    ELSE OK

setExecutionDelay(sender, newExecutionDelay) ==
    IF setExecutionDelayCheck(sender, newExecutionDelay) # OK
    THEN Reverted
    ELSE /\ executionDelay' = newExecutionDelay
         /\ UNCHANGED <<now, balanceOf, dao, votingVars, modVars, govRoles, govPaused, proposalCount,
                        proposals, votingPeriod, quorum, govEvents>>

\* setQuorum behind whenNotPaused.
setQuorumCheckWhenNotPaused(sender, newQuorum) ==
    IF ~hasRole(govRoles, ADMIN_ROLE, sender) THEN ErrAccess
    ELSE IF govPaused THEN ErrPaused
    ELSE IF ~(newQuorum > 0) THEN "Quorum must be positive"
    ELSE OK

setQuorumCheck(sender, newQuorum) ==
    IF ~hasRole(govRoles, ADMIN_ROLE, sender) THEN ErrAccess
    ELSE IF ~(newQuorum > 0) THEN "Quorum must be positive"
    ELSE OK

setQuorum(sender, newQuorum) ==
    IF setQuorumCheck(sender, newQuorum) # OK
    THEN Reverted
    ELSE /\ quorum' = newQuorum
         /\ UNCHANGED <<now, balanceOf, dao, votingVars, modVars, govRoles, govPaused, proposalCount,
                        proposals, votingPeriod, executionDelay, govEvents>>

govPauseCheck(sender) ==
    IF ~hasRole(govRoles, ADMIN_ROLE, sender) THEN ErrAccess
    ELSE IF govPaused THEN ErrPaused
    ELSE OK

govPause(sender) ==
    IF govPauseCheck(sender) # OK
    THEN Reverted
    ELSE /\ govPaused' = TRUE
         /\ UNCHANGED <<now, balanceOf, dao, votingVars, modVars, govRoles, proposalCount, proposals,
                        votingPeriod, executionDelay, quorum, govEvents>>

govUnpauseCheck(sender) ==
    IF ~hasRole(govRoles, ADMIN_ROLE, sender) THEN ErrAccess
    ELSE IF ~govPaused THEN ErrNotPaused
    ELSE OK

govUnpause(sender) ==
    IF govUnpauseCheck(sender) # OK
    THEN Reverted
    ELSE /\ govPaused' = FALSE
         /\ UNCHANGED <<now, balanceOf, dao, votingVars, modVars, govRoles, proposalCount, proposals,
                        votingPeriod, executionDelay, quorum, govEvents>>

addProposerCheck(sender) ==
    IF ~hasRole(govRoles, ADMIN_ROLE, sender) THEN ErrAccess
    ELSE IF ~hasRole(govRoles, DEFAULT_ADMIN_ROLE, sender) THEN ErrAccess
    ELSE OK

addProposer(sender, account) ==
    IF addProposerCheck(sender) # OK
    THEN Reverted
    ELSE /\ govRoles' = grantRole(govRoles, PROPOSER_ROLE, account)
         /\ UNCHANGED <<now, balanceOf, dao, votingVars, modVars, govPaused, proposalCount, proposals,
                        votingPeriod, executionDelay, quorum, govEvents>>

removeProposer(sender, account) ==
    IF addProposerCheck(sender) # OK
    THEN Reverted
    ELSE /\ govRoles' = revokeRole(govRoles, PROPOSER_ROLE, account)
         /\ UNCHANGED <<now, balanceOf, dao, votingVars, modVars, govPaused, proposalCount, proposals,
                        votingPeriod, executionDelay, quorum, govEvents>>

\* The public grantRole / revokeRole / renounceRole that the contract inherits
\* from AccessControl: the first two are open to the holders of the role's
\* admin role (DEFAULT_ADMIN_ROLE for every role), the third to the account
\* itself.  None of them is behind the pause gate.
govGrantRoleCheck(sender) ==
    IF ~hasRole(govRoles, DEFAULT_ADMIN_ROLE, sender) THEN ErrAccess
    ELSE OK

govGrantRole(sender, role, account) ==
    IF govGrantRoleCheck(sender) # OK
    THEN Reverted
    ELSE /\ govRoles' = grantRole(govRoles, role, account)
         /\ UNCHANGED <<now, balanceOf, dao, votingVars, modVars, govPaused, proposalCount, proposals,
                        votingPeriod, executionDelay, quorum, govEvents>>

govRevokeRole(sender, role, account) ==
    IF govGrantRoleCheck(sender) # OK
    THEN Reverted
    ELSE /\ govRoles' = revokeRole(govRoles, role, account)
         /\ UNCHANGED <<now, balanceOf, dao, votingVars, modVars, govPaused, proposalCount, proposals,
                        votingPeriod, executionDelay, quorum, govEvents>>

govRenounceRoleCheck(sender, account) ==
    IF account # sender THEN "AccessControl: can only renounce roles for self"
    ELSE OK

govRenounceRole(sender, role, account) ==
    IF govRenounceRoleCheck(sender, account) # OK
    THEN Reverted
    ELSE /\ govRoles' = revokeRole(govRoles, role, account)
         /\ UNCHANGED <<now, balanceOf, dao, votingVars, modVars, govPaused, proposalCount, proposals,
                        votingPeriod, executionDelay, quorum, govEvents>>

---------------------------------------------------------------------------
(* Environment: the block clock *)

\* A later block: block.timestamp never decreases.
Tick(limit) ==
    /\ now < limit
    /\ now' = now + 1
    /\ UNCHANGED <<balanceOf, dao, votingVars, modVars, govVars>>

\* IERC20.transfer on the governance token: a holder moves tokens of its own.
tokenTransfer(sender, to, amount) ==
    IF balanceOf[sender] < amount
    THEN Reverted
    ELSE /\ balanceOf' = [a \in Accounts |->
                IF a = sender /\ a = to THEN balanceOf[a]
                ELSE IF a = sender THEN balanceOf[a] - amount
                ELSE IF a = to THEN balanceOf[a] + amount
                ELSE balanceOf[a]]
         /\ UNCHANGED <<now, dao, votingVars, modVars, govVars>>

---------------------------------------------------------------------------
(* The proposal adapter: class DAOService of DAO.js *)

\* JavaScript values, as far as the adapter looks at them.
Undefined == [t |-> "undefined"]
Null == [t |-> "null"]
Str(s) == [t |-> "string", s |-> s]
Num(n) == [t |-> "number", n |-> n]
Obj(shares) == [t |-> "object", shares |-> shares]
Bool(b) == [t |-> "boolean", b |-> b]
Arr(length) == [t |-> "array", length |-> length]
NaN == [t |-> "NaN"]

\* The outcome of a call: a returned value or a thrown error.
Return(v) == [kind |-> "return", value |-> v]
Throw(e) == [kind |-> "throw", error |-> e]

Truthy(v) ==
    CASE v.t \in {"undefined", "null"} -> FALSE
      [] v.t = "string" -> v.s # ""
      [] v.t = "number" -> v.n # 0
      [] v.t = "boolean" -> v.b
      [] v.t = "NaN" -> FALSE
      [] OTHER -> TRUE

\* String.prototype.toLowerCase on the strings of the model.
toLowerCase(s) ==
    CASE s = "Moloch" -> "moloch"
      [] s = "Active" -> "active"
      [] s = "EXECUTED" -> "executed"
      [] s = "Vetoed" -> "vetoed"
      [] OTHER -> s

\* web3.utils.fromWei on the amounts of the model (18 decimals).
fromWei(s) ==
    CASE s = "100000000000000000000" -> "100"
      [] OTHER -> "0"

\* String.prototype.length of the strings getVotingPower may hold.
Length(s) ==
    CASE s = "100000000000000000000" -> 21
      [] s = "" -> 0
      [] s = "0" -> 1
      [] s = "100" -> 3
      [] OTHER -> 4

\* Number.prototype.toString on the numbers of the model.
NumberToString(n) ==
    CASE n = 0 -> "0"
      [] n = 5 -> "5"
      [] OTHER -> "NaN"

\* new DAOService(options): daoType defaults to 'compound', customInterfaces
\* to {}; blockchain.currentAccount is the wallet's account, if connected.
DAOService(daoType, customLookup, currentAccount) ==
    [daoType |-> IF Truthy(daoType) THEN daoType.s ELSE "compound",
     customLookup |-> customLookup,
     currentAccount |-> currentAccount,
     call |-> [op |-> "none"],
     result |-> Return(Undefined),
     backendCalls |-> <<>>]

\* getVotingPower(account), where response is what blockchain.callMethod
\* yields for the lookup the variant makes.
getVotingPower(service, account, response) ==
    LET userAddress == IF Truthy(account) THEN account ELSE service.currentAccount
        type == toLowerCase(service.daoType)
        looksUp == \/ type \in {"compound", "openzeppelin", "aragon", "moloch"}
                   \/ type = "custom" /\ service.customLookup
        votingPower ==
            CASE type \in {"compound", "openzeppelin", "aragon"} -> response.value
              [] type = "moloch" ->
                    IF Truthy(response.value)
                    THEN IF response.value.t = "object"
                         THEN response.value.shares ELSE Undefined
                    ELSE Str("0")
              [] type = "custom" /\ service.customLookup -> response.value
              [] OTHER -> Str("0")
    IN  IF ~Truthy(userAddress) THEN Throw("No account specified")
        ELSE IF looksUp /\ response.kind = "throw" THEN response
        ELSE IF votingPower.t = "string" /\ Length(votingPower.s) > 10
             THEN Return(Str(fromWei(votingPower.s)))
        ELSE CASE votingPower.t = "string" -> Return(votingPower)
               [] votingPower.t = "number" -> Return(Str(NumberToString(votingPower.n)))
               [] votingPower.t = "object" -> Return(Str("[object Object]"))
               [] OTHER -> Throw("TypeError: Cannot read properties of " \o votingPower.t)

\* A backend call and what it yielded.
Call(name, response) == [name |-> name, response |-> response]

\* The backend calls getVotingPower(account) makes before it settles.
getVotingPowerCalls(service, account, response) ==
    LET userAddress == IF Truthy(account) THEN account ELSE service.currentAccount
        type == toLowerCase(service.daoType)
    IN  IF Truthy(userAddress)
           /\ (type \in {"compound", "openzeppelin", "aragon", "moloch"}
               \/ (type = "custom" /\ service.customLookup))
        THEN <<Call("callMethod", response)>> ELSE <<>>

\* The status vocabularies of _mapStatus.
statusMaps ==
    [compound |-> <<"pending", "active", "canceled", "defeated", "succeeded", "queued",
                    "expired", "executed">>,
     aragon |-> <<"pending", "active", "canceled", "passed", "rejected">>,
     openzeppelin |-> <<"pending", "active", "canceled", "defeated", "succeeded",
                        "queued", "expired", "executed">>,
     moloch |-> <<"sponsored", "submitted", "processed", "cancelled", "passed", "failed">>]

\* _mapStatus(status): the vocabulary is looked up under this.daoType as it
\* is written; a number indexes it, anything else is lower-cased.
mapStatus(service, status) ==
    LET statusMap == IF service.daoType \in DOMAIN statusMaps
                     THEN statusMaps[service.daoType] ELSE statusMaps.compound
    IN  IF status.t = "number"
        THEN IF status.n \in 0..(Len(statusMap) - 1)
             THEN Return(Str(statusMap[status.n + 1]))
             ELSE Return(Str("unknown"))
        ELSE IF status.t = "string"
             THEN Return(Str(toLowerCase(status.s)))
             ELSE Throw("TypeError: Cannot read properties of " \o status.t)

\* The run of an asynchronous method: how it settles and the backend calls
\* it made on the way.
Run(outcome, calls) == [outcome |-> outcome, calls |-> calls]

\* catch (error) { throw new Error(`${context}: ${error.message}`) }
Wrap(context, outcome) ==
    IF outcome.kind = "throw" THEN Throw(context \o ": " \o outcome.error) ELSE outcome

\* this.adapters: the methods the constructor binds for each variant.
AdapterMethods == {"getProposals", "createProposal", "castVote", "delegate"}
adapters ==
    [compound |-> AdapterMethods, aragon |-> AdapterMethods,
     openzeppelin |-> AdapterMethods, moloch |-> AdapterMethods,
     custom |-> AdapterMethods]

getAdapter(service) ==
    LET type == toLowerCase(service.daoType)
    IN  IF type \in DOMAIN adapters
        THEN Return(adapters[type])
        ELSE Throw("Unsupported DAO type: " \o service.daoType)

\* adapter[method](...): the bound variant method answers with response; a
\* method the table lacks is undefined, and calling it is a TypeError.
CallAdapter(adapter, method, response) ==
    IF method \in adapter THEN response
    ELSE Throw("adapter." \o method \o " is not a function")

AdapterCalls(adapter, method, response) ==
    IF method \in adapter THEN <<Call(method, response)>> ELSE <<>>

\* The length property of a value.
LengthOf(v) ==
    CASE v.t = "string" -> Num(Len(v.s))
      [] v.t = "array" -> Num(v.length)
      [] OTHER -> Undefined

\* Array.prototype.join(', ')
RECURSIVE Join(_)
Join(fields) ==
    IF Len(fields) = 0 THEN ""
    ELSE IF Len(fields) = 1 THEN Head(fields)
    ELSE Head(fields) \o ", " \o Join(Tail(fields))

\* Number(value) on the strings getVotingPower resolves to.
Number(v) ==
    CASE v = Str("") -> Num(0)
      [] v = Str("0") -> Num(0)
      [] v = Str("5") -> Num(5)
      [] v = Str("100") -> Num(100)
      [] OTHER -> NaN

MaxTitleLength == 256

Proposal(title, description, actions) ==
    [t |-> "object", title |-> title, description |-> description, actions |-> actions]

\* _validateProposal(proposal)
validateProposalNoActionCheck(proposal) ==
    IF proposal.t # "object"
    THEN Throw("TypeError: Cannot read properties of " \o proposal.t)
    ELSE LET missingFields == SelectSeq(<<"title", "description", "actions">>,
                                        LAMBDA field : ~Truthy(proposal[field]))
         IN  IF Len(missingFields) > 0
             THEN Throw("Missing required fields: " \o Join(missingFields))
             ELSE IF LengthOf(proposal.title).t = "number"
                     /\ LengthOf(proposal.title).n > MaxTitleLength
             THEN Throw("Proposal title exceeds 256 character limit")
             ELSE Return(Undefined)
validateProposal(proposal) ==
    IF proposal.t # "object"
    THEN Throw("TypeError: Cannot read properties of " \o proposal.t)
    ELSE LET missingFields == SelectSeq(<<"title", "description", "actions">>,
                                        LAMBDA field : ~Truthy(proposal[field]))
         IN  IF Len(missingFields) > 0
             THEN Throw("Missing required fields: " \o Join(missingFields))
             ELSE IF LengthOf(proposal.actions) = Num(0)
             THEN Throw("Proposal must contain at least one action")
             ELSE IF LengthOf(proposal.title).t = "number"
                     /\ LengthOf(proposal.title).n > MaxTitleLength
             THEN Throw("Proposal title exceeds 256 character limit")
             ELSE Return(Undefined)

\* createProposal(proposal): powerResponse is what the voting-power lookup
\* yields, adapterResponse what the variant's createProposal yields.
serviceCreateProposal(service, proposal, powerResponse, adapterResponse) ==
    LET context == "Proposal creation failed"
        validation == validateProposal(proposal)
        votingPower == getVotingPower(service, Undefined, powerResponse)
        powerCalls == getVotingPowerCalls(service, Undefined, powerResponse)
        adapter == getAdapter(service)
    IN  IF validation.kind = "throw" THEN Run(Wrap(context, validation), <<>>)
        ELSE IF votingPower.kind = "throw"
             THEN Run(Wrap(context, votingPower), powerCalls)
        ELSE IF Number(votingPower.value).t = "number" /\ Number(votingPower.value).n <= 0
             THEN Run(Wrap(context, Throw("Insufficient voting power to create proposal")),
                      powerCalls)
        ELSE IF adapter.kind = "throw" THEN Run(Wrap(context, adapter), powerCalls)
        ELSE Run(Wrap(context, CallAdapter(adapter.value, "createProposal", adapterResponse)),
                 powerCalls \o AdapterCalls(adapter.value, "createProposal", adapterResponse))

\* getProposal(proposalId): the adapter table has no getProposal entry and
\* the class no _normalizeProposal method.
serviceGetProposal(service, adapterResponse) ==
    LET context == "Failed to get proposal"
        adapter == getAdapter(service)
    IN  IF adapter.kind = "throw" THEN Run(Wrap(context, adapter), <<>>)
        ELSE LET proposal == CallAdapter(adapter.value, "getProposal", adapterResponse)
                 calls == AdapterCalls(adapter.value, "getProposal", adapterResponse)
             IN  IF proposal.kind = "throw" THEN Run(Wrap(context, proposal), calls)
                 ELSE Run(Wrap(context, Throw("this._normalizeProposal is not a function")),
                          calls)

\* The raw proposals a variant returns, by their status fields.
Proposals(statuses) == [t |-> "array", statuses |-> statuses]

\* _normalizeProposals(proposals), by the status of each proposal.
normalizeProposals(service, rawProposals) ==
    LET mapped == [i \in DOMAIN rawProposals.statuses |->
                        mapStatus(service, rawProposals.statuses[i])]
    IN  IF \E i \in DOMAIN mapped : mapped[i].kind = "throw"
        THEN mapped[CHOOSE i \in DOMAIN mapped :
                        /\ mapped[i].kind = "throw"
                        /\ \A j \in DOMAIN mapped : mapped[j].kind = "throw" => i <= j]
        ELSE Return(Proposals([i \in DOMAIN mapped |-> mapped[i].value]))

\* getProposals(options)
serviceGetProposals(service, adapterResponse) ==
    LET context == "Failed to get proposals"
        adapter == getAdapter(service)
    IN  IF adapter.kind = "throw" THEN Run(Wrap(context, adapter), <<>>)
        ELSE LET rawProposals == CallAdapter(adapter.value, "getProposals", adapterResponse)
                 calls == AdapterCalls(adapter.value, "getProposals", adapterResponse)
             IN  IF rawProposals.kind = "throw" THEN Run(Wrap(context, rawProposals), calls)
                 ELSE Run(Wrap(context, normalizeProposals(service, rawProposals.value)), calls)

\* The hasVoted property of what governor.getVotes yields.
Vote(hasVoted) == [t |-> "object", hasVoted |-> Bool(hasVoted)]

\* hasVoted(proposalId, account): the compound lookup is returned without
\* being awaited, so its rejection passes the catch; every other failure is
\* caught and answered with false. The adapter table has no hasVoted entry.
serviceHasVoted(service, account, lookup) ==
    LET adapter == getAdapter(service)
        type == toLowerCase(service.daoType)
        calls == <<Call("callMethod", lookup)>>
    IN  IF adapter.kind = "throw" THEN Run(Return(Bool(FALSE)), <<>>)
        ELSE CASE type = "compound" -> Run(lookup, calls)
               [] type = "openzeppelin" ->
                    IF lookup.kind = "throw" THEN Run(Return(Bool(FALSE)), calls)
                    ELSE IF lookup.value.t \in {"undefined", "null"}
                         THEN Run(Return(Bool(FALSE)), calls)
                    ELSE IF lookup.value.t = "object"
                         THEN Run(Return(lookup.value.hasVoted), calls)
                    ELSE Run(Return(Undefined), calls)
               [] OTHER ->
                    LET voted == CallAdapter(adapter.value, "hasVoted", lookup)
                    IN  IF voted.kind = "throw"
                        THEN Run(Return(Bool(FALSE)),
                                 AdapterCalls(adapter.value, "hasVoted", lookup))
                        ELSE Run(voted, AdapterCalls(adapter.value, "hasVoted", lookup))

\* castVote(proposalId, support, reason)
serviceCastVote(service, support, lookup, adapterResponse) ==
    LET context == "Voting failed"
        voted == serviceHasVoted(service, Undefined, lookup)
        adapter == getAdapter(service)
    IN  IF support \notin {Num(0), Num(1), Num(2)}
        THEN Run(Wrap(context, Throw("Invalid vote direction")), <<>>)
        ELSE IF voted.outcome.kind = "throw"
             THEN Run(Wrap(context, voted.outcome), voted.calls)
        ELSE IF Truthy(voted.outcome.value)
             THEN Run(Wrap(context, Throw("Already voted on this proposal")), voted.calls)
        ELSE IF adapter.kind = "throw" THEN Run(Wrap(context, adapter), voted.calls)
        ELSE Run(Wrap(context, CallAdapter(adapter.value, "castVote", adapterResponse)),
                 voted.calls \o AdapterCalls(adapter.value, "castVote", adapterResponse))

\* web3.utils.isAddress on the delegatees of the model.
isAddress(v) == v \in {Str("0xA"), Str("0xB")}

\* delegateVotes(delegatee)
serviceDelegateVotes(service, delegatee, adapterResponse) ==
    LET context == "Vote delegation failed"
        adapter == getAdapter(service)
    IN  IF ~isAddress(delegatee)
        THEN Run(Wrap(context, Throw("Invalid delegatee address")), <<>>)
        ELSE IF adapter.kind = "throw" THEN Run(Wrap(context, adapter), <<>>)
        ELSE Run(Wrap(context, CallAdapter(adapter.value, "delegate", adapterResponse)),
                 AdapterCalls(adapter.value, "delegate", adapterResponse))

\* getProposalState(proposalId): any failure is answered with 'unknown'.
serviceGetProposalState(service, lookup) ==
    LET calls == <<Call("callMethod", lookup)>>
    IN  IF lookup.kind = "throw" THEN Run(Return(Str("unknown")), calls)
        ELSE IF mapStatus(service, lookup.value).kind = "throw"
             THEN Run(Return(Str("unknown")), calls)
        ELSE Run(mapStatus(service, lookup.value), calls)

\* executeProposal(proposalId)
serviceExecuteProposal(service, lookup, txResponse) ==
    LET context == "Proposal execution failed"
        state == serviceGetProposalState(service, lookup)
    IN  IF state.outcome.value # Str("succeeded")
        THEN Run(Wrap(context, Throw("Proposal must be in succeeded state to execute (current: "
                                      \o state.outcome.value.s \o ")")),
                 state.calls)
        ELSE Run(Wrap(context, txResponse),
                 Append(state.calls, Call("sendTransaction", txResponse)))

\* castVote(proposalId, support, reason) call by call: each call runs to its
\* first await (hasVoted), resumes when the lookup settles and forwards the
\* vote, and resumes again when the variant's castVote settles.
MaxCalls == 2

NoVoteCalls == [c \in 1..MaxCalls |-> [pc |-> "idle", result |-> Return(Undefined)]]
NoVotes == [voted |-> FALSE, forwarded |-> 0, inFlight |-> 0]

\* The synchronous head of castVote, up to `await this.hasVoted(proposalId)`.
castVoteBegin(c, support) ==
    /\ voteCalls[c].pc = "idle"
    /\ voteCalls' = [voteCalls EXCEPT ![c] =
            IF support \notin {Num(0), Num(1), Num(2)}
            THEN [pc |-> "settled",
                  result |-> Wrap("Voting failed", Throw("Invalid vote direction"))]
            ELSE [pc |-> "hasVoted", result |-> Return(Undefined)]]
    /\ UNCHANGED <<now, balanceOf, dao, governor, modVars, govVars>>

\* What the governor answers to the vote-status lookup of the variant.
VoteStatus(service) ==
    IF toLowerCase(service.daoType) = "openzeppelin"
    THEN Return(Vote(governor.voted)) ELSE Return(Bool(governor.voted))

\* hasVoted has settled: the call either stops or, in the same turn, hands
\* the vote to the variant's castVote and awaits it.
castVoteAfterHasVoted(c, lookup) ==
    LET voted == serviceHasVoted(dao, Undefined, lookup).outcome
        adapter == getAdapter(dao)
        failure ==
            IF voted.kind = "throw" THEN voted
            ELSE IF Truthy(voted.value) THEN Throw("Already voted on this proposal")
            ELSE IF adapter.kind = "throw" THEN adapter
            ELSE CallAdapter(adapter.value, "castVote", Return(Undefined))
    IN  /\ voteCalls[c].pc = "hasVoted"
        /\ IF failure.kind = "throw"
           THEN /\ voteCalls' = [voteCalls EXCEPT ![c] =
                        [pc |-> "settled", result |-> Wrap("Voting failed", failure)]]
                /\ UNCHANGED governor
           ELSE /\ voteCalls' = [voteCalls EXCEPT ![c].pc = "castVote"]
                /\ governor' = [governor EXCEPT !.forwarded = @ + 1, !.inFlight = @ + 1]
        /\ UNCHANGED <<now, balanceOf, dao, modVars, govVars>>

\* The variant's castVote has settled: the governor takes the first vote of
\* the account and reverts any other.
castVoteSettled(c) ==
    /\ voteCalls[c].pc = "castVote"
    /\ governor' = [governor EXCEPT !.voted = TRUE, !.inFlight = @ - 1]
    /\ voteCalls' = [voteCalls EXCEPT ![c] =
            [pc |-> "settled",
             result |-> Wrap("Voting failed",
                             IF governor.voted THEN Throw("execution reverted")
                             ELSE Return(Str("0xtx")))]]
    /\ UNCHANGED <<now, balanceOf, dao, modVars, govVars>>

---------------------------------------------------------------------------
(* Initial state: both contracts as their constructors leave them *)

Roles == {DEFAULT_ADMIN_ROLE, ADMIN_ROLE, MODERATOR_ROLE, PROPOSER_ROLE}

\* Transaction inputs.
ContentIds == {"", "c1", "c2"}
RecordInputs ==
    {[contentId |-> c, contentHash |-> "0xabc", isFlagged |-> TRUE,
      categories |-> <<"hate_speech", "violence">>, confidenceScore |-> 750,
      reason |-> "r1"] : c \in ContentIds}
    \cup
    {[contentId |-> "c1", contentHash |-> h, isFlagged |-> FALSE,
      categories |-> << >>, confidenceScore |-> sc, reason |-> ""] :
        h \in {"", "0xdef"}, sc \in {1000, 1001}}
Grantees == {"acct1", "acct2"}
Reasons == {"", "acceptable", "x"}
Titles == {"", "Test Proposal"}
Descriptions == {"", "This is a test proposal"}
VotingPeriodInputs == {0, 1}
ExecutionDelayInputs == {0}
QuorumInputs == {0, 50}

ContractsInit ==
    /\ now = 0
    /\ balanceOf = [a \in Accounts |->
            IF a = "acct1" THEN 50 ELSE IF a = "acct2" THEN 50 ELSE 0]
    /\ modRoles = [r \in Roles |->
            IF r \in {DEFAULT_ADMIN_ROLE, ADMIN_ROLE} THEN {Deployer} ELSE {}]
    /\ modPaused = FALSE
    /\ moderationRecords = NoRecords
    /\ contentToRecords = [c \in ContentIds |-> << >>]
    /\ modEvents = EmptyBag
    /\ govRoles = [r \in Roles |->
            IF r \in {DEFAULT_ADMIN_ROLE, ADMIN_ROLE, PROPOSER_ROLE}
            THEN {Deployer} ELSE {}]
    /\ govPaused = FALSE
    /\ proposalCount = 0
    /\ proposals = [i \in 0..(MaxProposals - 1) |-> EmptyProposal]
    /\ votingPeriod = InitialVotingPeriod
    /\ executionDelay = InitialExecutionDelay
    /\ quorum = InitialQuorum
    /\ govEvents = EmptyBag

Init ==
    /\ ContractsInit
    /\ dao = DAOService(Undefined, FALSE, Undefined)
    /\ governor = NoVotes
    /\ voteCalls = NoVoteCalls

---------------------------------------------------------------------------
(* The moderation ledger alone *)

ModAddModerator == \E s \in Accounts, a \in Grantees : addModerator(s, a)

ModRemoveModerator == \E s \in Accounts, a \in Grantees : removeModerator(s, a)

ModPause == \E s \in Accounts : modPause(s)

ModUnpause == \E s \in Accounts : modUnpause(s)

ModAddRecord ==
    /\ Len(moderationRecords) < MaxRecords
    /\ \E s \in Accounts, in \in RecordInputs :
            addModerationRecord(s, in.contentId, in.contentHash, in.isFlagged,
                                in.categories, in.confidenceScore, in.reason)

ModOverrule ==
    \E s \in Accounts, id \in 0..MaxRecords, reason \in Reasons :
        overruleModeration(s, id, reason)

NextMod ==
    \/ ModAddModerator
    \/ ModRemoveModerator
    \/ ModPause
    \/ ModUnpause
    \/ ModAddRecord
    \/ ModOverrule

SpecMod == Init /\ [][NextMod]_vars

---------------------------------------------------------------------------
(* The governance engine alone *)

GovAddProposer == \E s \in Accounts, a \in {"acct1"} : addProposer(s, a)

GovRemoveProposer == \E s \in Accounts, a \in {"acct1"} : removeProposer(s, a)

GovPause == \E s \in Accounts : govPause(s)

GovUnpause == \E s \in Accounts : govUnpause(s)

GovCreateProposal ==
    /\ proposalCount < MaxProposals
    /\ \E s \in Accounts, t \in Titles, d \in Descriptions : createProposal(s, t, d)

GovCastVote ==
    \E s \in Accounts, id \in 0..MaxProposals, support \in BOOLEAN :
        castVote(s, id, support)

GovExecuteProposal ==
    \E s \in Accounts, id \in 0..MaxProposals : executeProposal(s, id)

GovSetVotingPeriod ==
    \E s \in Accounts, v \in VotingPeriodInputs : setVotingPeriod(s, v)

GovSetExecutionDelay ==
    \E s \in Accounts, v \in ExecutionDelayInputs : setExecutionDelay(s, v)

GovSetQuorum == \E s \in Accounts, v \in QuorumInputs : setQuorum(s, v)

GovTick == Tick(MaxTime)

\* The proposal lifecycle: roles as the constructor leaves them.
NextGov ==
    \/ GovPause
    \/ GovUnpause
    \/ GovCreateProposal
    \/ GovCastVote
    \/ GovExecuteProposal
    \/ GovSetVotingPeriod
    \/ GovSetQuorum
    \/ GovTick

SpecGov == Init /\ [][NextGov]_vars

---------------------------------------------------------------------------
(* The governance engine with its administration, one proposal *)

AdminCreateProposal ==
    /\ proposalCount < MaxProposals - 1
    /\ \E s \in Accounts, t \in Titles, d \in Descriptions : createProposal(s, t, d)

NextGovAdmin ==
    \/ GovAddProposer
    \/ GovRemoveProposer
    \/ GovPause
    \/ GovUnpause
    \/ AdminCreateProposal
    \/ GovCastVote
    \/ GovExecuteProposal
    \/ GovSetVotingPeriod
    \/ GovSetExecutionDelay
    \/ GovSetQuorum
    \/ GovTick

SpecGovAdmin == Init /\ [][NextGovAdmin]_vars

---------------------------------------------------------------------------
(* Both ledgers together, one record and one proposal *)

SysRecordInputs == {in \in RecordInputs : in.contentId # "c2" /\ in.isFlagged}

SysAddModerator == \E s \in Accounts : addModerator(s, "acct1")

SysRemoveModerator == \E s \in Accounts : removeModerator(s, "acct1")

SysAddRecord ==
    /\ Len(moderationRecords) < MaxRecords - 1
    /\ \E s \in Accounts, in \in SysRecordInputs :
            addModerationRecord(s, in.contentId, in.contentHash, in.isFlagged,
                                in.categories, in.confidenceScore, in.reason)

SysOverrule ==
    \E s \in Accounts, id \in 0..(MaxRecords - 1), reason \in {"", "acceptable"} :
        overruleModeration(s, id, reason)

Next ==
    \/ SysAddModerator
    \/ SysRemoveModerator
    \/ ModPause
    \/ ModUnpause
    \/ SysAddRecord
    \/ SysOverrule
    \/ GovPause
    \/ GovUnpause
    \/ AdminCreateProposal
    \/ GovCastVote
    \/ GovExecuteProposal
    \/ GovTick

Spec == Init /\ [][Next]_vars

---------------------------------------------------------------------------
(* Role administration of both ledgers, one record and one proposal *)

ModRoleInputs == {DEFAULT_ADMIN_ROLE, ADMIN_ROLE, MODERATOR_ROLE}
GovRoleInputs == {DEFAULT_ADMIN_ROLE, ADMIN_ROLE, PROPOSER_ROLE}
RoleGrantees == {"acct1"}
RoleHolders == {"owner", "acct1"}

ModGrantRole ==
    \E s \in Accounts, r \in ModRoleInputs, a \in RoleGrantees : modGrantRole(s, r, a)

ModRevokeRole ==
    \E s \in Accounts, r \in ModRoleInputs, a \in RoleHolders : modRevokeRole(s, r, a)

ModRenounceRole ==
    \E s \in Accounts, r \in ModRoleInputs, a \in RoleHolders : modRenounceRole(s, r, a)

GovGrantRole ==
    \E s \in Accounts, r \in GovRoleInputs, a \in RoleGrantees : govGrantRole(s, r, a)

GovRevokeRole ==
    \E s \in Accounts, r \in GovRoleInputs, a \in RoleHolders : govRevokeRole(s, r, a)

GovRenounceRole ==
    \E s \in Accounts, r \in GovRoleInputs, a \in RoleHolders : govRenounceRole(s, r, a)

RolesAddRecord ==
    /\ Len(moderationRecords) < MaxRecords - 1
    /\ \E s \in Accounts, in \in {x \in SysRecordInputs : x.contentId = "c1"} :
            addModerationRecord(s, in.contentId, in.contentHash, in.isFlagged,
                                in.categories, in.confidenceScore, in.reason)

RolesCreateProposal ==
    /\ proposalCount < MaxProposals - 1
    /\ \E s \in Accounts : createProposal(s, "Test Proposal", "This is a test proposal")

NextRoles ==
    \/ ModGrantRole
    \/ ModRevokeRole
    \/ ModRenounceRole
    \/ SysAddModerator
    \/ SysRemoveModerator
    \/ ModPause
    \/ ModUnpause
    \/ RolesAddRecord
    \/ GovGrantRole
    \/ GovRevokeRole
    \/ GovRenounceRole
    \/ GovAddProposer
    \/ GovRemoveProposer
    \/ GovPause
    \/ GovUnpause
    \/ RolesCreateProposal

SpecRoles == Init /\ [][NextRoles]_vars

---------------------------------------------------------------------------
(* Voting while the governance token changes hands *)

TransferAmounts == {50}

TokenTransfer ==
    \E s \in Accounts, to \in Accounts, amount \in TransferAmounts :
        tokenTransfer(s, to, amount)

NextToken ==
    \/ AdminCreateProposal
    \/ GovCastVote
    \/ GovExecuteProposal
    \/ GovTick
    \/ TokenTransfer

SpecToken == Init /\ [][NextToken]_vars

---------------------------------------------------------------------------
(* The proposal adapter over every backend variant *)

DaoTypes == {Undefined, Str("compound"), Str("aragon"), Str("openzeppelin"), Str("moloch"),
             Str("custom"), Str("Moloch"), Str("snapshot")}
AccountArgs == {Undefined, Str("0xA")}
StatusInputs ==
    {Num(n) : n \in (0 - 1)..MaxStatusCode}
    \cup {Str("active"), Str("Active"), Str("EXECUTED"), Str("Vetoed"), Str(""),
          Undefined, Null}
LookupResponses ==
    {Throw("Contract not found"), Return(Undefined), Return(Null), Return(Str("0")),
     Return(Str("100")), Return(Str("100000000000000000000")), Return(Num(5)),
     Return(Obj(Str("5"))), Return(Obj(Undefined))}

AdapterResponses == {Throw("execution reverted"), Return(Str("0xtx"))}
PowerResponses ==
    {Throw("Contract not found"), Return(Str("0")), Return(Str("100")), Return(Obj(Str("5")))}

RECURSIVE Repeat(_, _)
Repeat(s, n) ==
    IF n = 0 THEN ""
    ELSE IF n % 2 = 0 THEN LET half == Repeat(s, n \div 2) IN half \o half
    ELSE s \o Repeat(s, n - 1)

ProposalInputs ==
    {Undefined}
    \cup {Proposal(title, description, actions) :
            title \in {Undefined, Str(""), Str("Fund the audit"),
                       Str(Repeat("a", MaxTitleLength)),
                       Str(Repeat("a", MaxTitleLength + 1))},
            description \in {Str(""), Str("Pay the auditors")},
            actions \in {Undefined, Arr(0), Arr(1)}}

InitDAO ==
    /\ ContractsInit
    /\ dao \in {DAOService(type, customLookup, currentAccount) :
                    type \in DaoTypes, customLookup \in BOOLEAN,
                    currentAccount \in AccountArgs}
    /\ governor = NoVotes
    /\ voteCalls = NoVoteCalls

DaoGetVotingPower ==
    \E account \in AccountArgs, response \in LookupResponses :
        /\ dao' = [dao EXCEPT
                !.call = [op |-> "getVotingPower", account |-> account,
                          response |-> response],
                !.result = getVotingPower(dao, account, response),
                !.backendCalls = getVotingPowerCalls(dao, account, response)]
        /\ UNCHANGED <<now, balanceOf, votingVars, modVars, govVars>>

DaoMapStatus ==
    \E status \in StatusInputs :
        /\ dao' = [dao EXCEPT
                !.call = [op |-> "_mapStatus", status |-> status],
                !.result = mapStatus(dao, status),
                !.backendCalls = <<>>]
        /\ UNCHANGED <<now, balanceOf, votingVars, modVars, govVars>>

DaoCreateProposal ==
    \E proposal \in ProposalInputs, powerResponse \in PowerResponses, adapterResponse \in AdapterResponses :
        LET run == serviceCreateProposal(dao, proposal, powerResponse, adapterResponse)
        IN  /\ dao' = [dao EXCEPT
                    !.call = [op |-> "createProposal", proposal |-> proposal,
                              powerResponse |-> powerResponse,
                              adapterResponse |-> adapterResponse],
                    !.result = run.outcome,
                    !.backendCalls = run.calls]
            /\ UNCHANGED <<now, balanceOf, votingVars, modVars, govVars>>

HasVotedResponses ==
    {Throw("Contract not found"), Return(Bool(TRUE)), Return(Bool(FALSE)),
     Return(Vote(TRUE))}
StateResponses ==
    {Throw("Contract not found"), Return(Num(1)), Return(Num(4)), Return(Undefined)}
SupportInputs == {Num(0), Num(1), Num(3)}

DaoCall(call, run) ==
    /\ dao' = [dao EXCEPT !.call = call, !.result = run.outcome, !.backendCalls = run.calls]
    /\ UNCHANGED <<now, balanceOf, votingVars, modVars, govVars>>

DaoGetProposal ==
    \E adapterResponse \in AdapterResponses :
        DaoCall([op |-> "getProposal", adapterResponse |-> adapterResponse],
                serviceGetProposal(dao, adapterResponse))

DaoGetProposals ==
    \E adapterResponse \in {Throw("execution reverted"), Return(Proposals(<<Num(1), Num(7)>>)), Return(Proposals(<<Undefined>>))} :
        DaoCall([op |-> "getProposals", adapterResponse |-> adapterResponse],
                serviceGetProposals(dao, adapterResponse))

DaoHasVoted ==
    \E account \in AccountArgs, lookup \in HasVotedResponses :
        DaoCall([op |-> "hasVoted", account |-> account, lookup |-> lookup],
                serviceHasVoted(dao, account, lookup))

DaoCastVote ==
    \E support \in SupportInputs, lookup \in HasVotedResponses, adapterResponse \in AdapterResponses :
        DaoCall([op |-> "castVote", support |-> support, lookup |-> lookup,
                 adapterResponse |-> adapterResponse],
                serviceCastVote(dao, support, lookup, adapterResponse))

DaoDelegateVotes ==
    \E delegatee \in {Str("0xB"), Str("nobody")}, adapterResponse \in AdapterResponses :
        DaoCall([op |-> "delegateVotes", delegatee |-> delegatee,
                 adapterResponse |-> adapterResponse],
                serviceDelegateVotes(dao, delegatee, adapterResponse))

DaoGetProposalState ==
    \E lookup \in StateResponses :
        DaoCall([op |-> "getProposalState", lookup |-> lookup],
                serviceGetProposalState(dao, lookup))

DaoExecuteProposal ==
    \E lookup \in StateResponses, txResponse \in AdapterResponses :
        DaoCall([op |-> "executeProposal", lookup |-> lookup, txResponse |-> txResponse],
                serviceExecuteProposal(dao, lookup, txResponse))

NextDAO ==
    \/ DaoGetVotingPower
    \/ DaoMapStatus
    \/ DaoCreateProposal
    \/ DaoGetProposal
    \/ DaoGetProposals
    \/ DaoHasVoted
    \/ DaoCastVote
    \/ DaoDelegateVotes
    \/ DaoGetProposalState
    \/ DaoExecuteProposal

SpecDAO == InitDAO /\ [][NextDAO]_vars

---------------------------------------------------------------------------
(* Overlapping castVote calls of one account on one proposal *)

VoteBegin == \E c \in 1..MaxCalls, support \in SupportInputs : castVoteBegin(c, support)

VoteAfterHasVoted ==
    \E c \in 1..MaxCalls, lookup \in {VoteStatus(dao), Throw("Contract not found")} :
        castVoteAfterHasVoted(c, lookup)

VoteSettled == \E c \in 1..MaxCalls : castVoteSettled(c)

InitVotes ==
    /\ ContractsInit
    /\ dao \in {DAOService(type, FALSE, Str("0xA")) : type \in DaoTypes \ {Undefined}}
    /\ governor \in {NoVotes, [NoVotes EXCEPT !.voted = TRUE]}
    /\ voteCalls = NoVoteCalls

NextVotes ==
    \/ VoteBegin
    \/ VoteAfterHasVoted
    \/ VoteSettled

SpecVotes == InitVotes /\ [][NextVotes]_vars

---------------------------------------------------------------------------
(* Properties *)

ProposalIds == 0..(MaxProposals - 1)

\* The transaction A is a no-op in the current state: it reverts.
Fails(A) == ~ENABLED (A /\ ~UNCHANGED vars)

\* How many times an event was emitted.
Emitted(events, e) == CopiesIn(e, events)

VoteCastEvents(p, a) ==
    {e \in BagToSet(govEvents) : e.name = "VoteCast" /\ e.proposalId = p /\ e.voter = a}

ExecutedEvents(p) ==
    {e \in BagToSet(govEvents) : e.name = "ProposalExecuted" /\ e.proposalId = p}

EventCount(events, S) == BagCardinality([e \in S |-> CopiesIn(e, events)])

\* C1: no double voting.  Once a principal's vote on a proposal is recorded,
\* every further castVote by that principal on that proposal, for either value
\* of support, reverts and so changes neither tally nor the recorded vote; a
\* (proposal, principal) pair has had exactly one accepted vote if a vote is
\* recorded for it and none otherwise.
C1_NoDoubleVoting ==
    \A p \in ProposalIds, a \in Accounts :
        /\ proposals[p].votes[a] # VoteNone =>
            /\ p < proposalCount
            /\ castVoteCheck(a, p) # OK
            /\ \A support \in BOOLEAN : Fails(castVote(a, p, support))
            /\ EventCount(govEvents, VoteCastEvents(p, a)) = 1
        /\ proposals[p].votes[a] = VoteNone =>
            EventCount(govEvents, VoteCastEvents(p, a)) = 0

\* C1 witness: a principal has voted on an open proposal and still holds
\* tokens while the engine is not paused, so only the recorded vote stands
\* between a second castVote and the tally.
C1_Witness ==
    \E p \in ProposalIds, a \in Accounts :
        /\ p < proposalCount
        /\ proposals[p].votes[a] # VoteNone
        /\ castVoteCheck(a, p) = "Already voted"

C2_ExecutedStays ==
    \A p \in ProposalIds :
        proposals[p].executed =>
            /\ \A s \in Accounts :
                /\ executeProposalCheck(s, p) # OK
                /\ Fails(executeProposal(s, p))
            /\ proposals'[p].executed
            /\ proposals'[p].passed = proposals[p].passed
            /\ EventCount(govEvents, ExecutedEvents(p)) = 1
            /\ EventCount(govEvents', ExecutedEvents(p)') = 1

\* C2: execution is one-shot and irreversible.  From a state in which a
\* proposal is executed, every executeProposal on it reverts, and no step of
\* the engine clears executed, changes passed or executes it again: the
\* proposal has exactly one ProposalExecuted event before and after the step.
C2_ExecutionOneShot == [][C2_ExecutedStays]_vars

\* C2 witness: an executed proposal on which nothing but the executed flag
\* stops a further execution.
C2_Witness ==
    \E p \in ProposalIds, s \in Accounts :
        /\ proposals[p].executed
        /\ executeProposalCheck(s, p) = "Already executed"

TotalVotes(p) == proposals[p].forVotes + proposals[p].againstVotes

\* C3: executeProposal reverts while now <= endTime, whatever the tallies, and
\* reverts after endTime while forVotes + againstVotes < quorum; for every
\* caller it succeeds when the engine is not paused, the proposal exists and
\* is not executed, now > endTime and forVotes + againstVotes >= quorum.
C3_ExecutionGate ==
    \A p \in ProposalIds, s \in Accounts :
        p < proposalCount =>
            /\ now <= proposals[p].endTime =>
                /\ executeProposalCheck(s, p) # OK
                /\ Fails(executeProposal(s, p))
            /\ (now > proposals[p].endTime /\ TotalVotes(p) < quorum) =>
                /\ executeProposalCheck(s, p) # OK
                /\ Fails(executeProposal(s, p))
            /\ (/\ ~govPaused
                /\ ~proposals[p].executed
                /\ now > proposals[p].endTime
                /\ TotalVotes(p) >= quorum) =>
                /\ executeProposalCheck(s, p) = OK
                /\ ENABLED (executeProposal(s, p) /\ proposals'[p].executed)

\* C3 witness: one proposal sits at the last instant of its window with the
\* quorum already met (execution refused only for the time), while another
\* is past its window and was executed.
C3_Witness ==
    \E p \in ProposalIds, q \in ProposalIds :
        /\ p < proposalCount
        /\ q < proposalCount
        /\ now = proposals[p].endTime
        /\ TotalVotes(p) >= quorum
        /\ ~govPaused
        /\ proposals[q].executed

\* C4: pass rule.  An executed proposal has passed exactly when its forVotes
\* exceed its againstVotes, the ProposalExecuted event carries that verdict,
\* and an execution computes passed from the tallies of that moment; with
\* equal tallies and the quorum met the proposal fails.
C4_PassRule ==
    \A p \in ProposalIds :
        /\ proposals[p].executed =>
            /\ proposals[p].passed = (proposals[p].forVotes > proposals[p].againstVotes)
            /\ Emitted(govEvents, [name |-> "ProposalExecuted", proposalId |-> p,
                                   passed |-> proposals[p].passed]) = 1
        /\ ~proposals[p].executed =>
            /\ ~proposals[p].passed
            /\ \A s \in Accounts :
                ~ENABLED (/\ executeProposal(s, p)
                          /\ proposals'[p].executed
                          /\ proposals'[p].passed #
                                (proposals[p].forVotes > proposals[p].againstVotes))

\* C4 witness: a proposal executed on a tie with the quorum met, not passed.
C4_Witness ==
    \E p \in ProposalIds :
        /\ proposals[p].executed
        /\ proposals[p].forVotes = proposals[p].againstVotes
        /\ proposals[p].forVotes > 0
        /\ ~proposals[p].passed

\* Arguments that pass every requirement other than the role and pause gates.
ValidRecordInput(in) ==
    in.contentId # "" /\ in.contentHash # "" /\ in.confidenceScore <= 1000

ValidOverrule(recordId, reason) ==
    /\ recordId < Len(moderationRecords)
    /\ ~moderationRecords[recordId + 1].isOverruled
    /\ reason # ""

ValidVote(a, p) ==
    /\ p < proposalCount
    /\ now <= proposals[p].endTime
    /\ proposals[p].votes[a] = VoteNone
    /\ balanceOf[a] > 0

ValidExecution(p) ==
    /\ p < proposalCount
    /\ now > proposals[p].endTime
    /\ ~proposals[p].executed
    /\ TotalVotes(p) >= quorum

AddRecordCall(s, in) ==
    addModerationRecord(s, in.contentId, in.contentHash, in.isFlagged, in.categories,
                        in.confidenceScore, in.reason)

C5_Moderation ==
    /\ \A s \in Accounts, in \in RecordInputs :
        (hasRole(modRoles, MODERATOR_ROLE, s) /\ ValidRecordInput(in)) =>
            IF modPaused
            THEN /\ addModerationRecordCheck(s, in.contentId, in.contentHash,
                                             in.confidenceScore) = ErrPaused
                 /\ Fails(AddRecordCall(s, in))
            ELSE ENABLED (AddRecordCall(s, in)
                          /\ Len(moderationRecords') = Len(moderationRecords) + 1)
    /\ \A s \in Accounts, id \in 0..MaxRecords, reason \in Reasons :
        (hasRole(modRoles, ADMIN_ROLE, s) /\ ValidOverrule(id, reason)) =>
            IF modPaused
            THEN /\ overruleModerationCheck(s, id, reason) = ErrPaused
                 /\ Fails(overruleModeration(s, id, reason))
            ELSE ENABLED (overruleModeration(s, id, reason)
                          /\ moderationRecords'[id + 1].isOverruled)

C5_Governance ==
    /\ \A s \in Accounts, t \in Titles \ {""}, d \in Descriptions \ {""} :
        hasRole(govRoles, PROPOSER_ROLE, s) =>
            IF govPaused
            THEN /\ createProposalCheck(s, t, d) = ErrPaused
                 /\ Fails(createProposal(s, t, d))
            ELSE ENABLED (createProposal(s, t, d) /\ proposalCount' = proposalCount + 1)
    /\ \A s \in Accounts, p \in ProposalIds, support \in BOOLEAN :
        ValidVote(s, p) =>
            IF govPaused
            THEN /\ castVoteCheck(s, p) = ErrPaused
                 /\ Fails(castVote(s, p, support))
            ELSE ENABLED (castVote(s, p, support) /\ proposals'[p].votes[s] # VoteNone)
    /\ \A s \in Accounts, p \in ProposalIds :
        ValidExecution(p) =>
            IF govPaused
            THEN /\ executeProposalCheck(s, p) = ErrPaused
                 /\ Fails(executeProposal(s, p))
            ELSE ENABLED (executeProposal(s, p) /\ proposals'[p].executed)

\* C5: while a ledger is paused, addRecord, overrule, createProposal, castVote
\* and executeProposal, called by a holder of the required capability with
\* otherwise valid arguments, revert with "Pausable: paused" and change
\* nothing; whenever the ledger is not paused (so also after unpause) the
\* same call is accepted.
C5_PauseBlocksMutations == C5_Moderation /\ C5_Governance

\* C5 witness: both ledgers are paused while a moderator holds a valid
\* submission, an admin could overrule a stored record and a proposal is
\* ready to be executed.
C5_Witness ==
    /\ modPaused
    /\ govPaused
    /\ modRoles[MODERATOR_ROLE] # {}
    /\ \E id \in 0..MaxRecords : ValidOverrule(id, "acceptable")
    /\ \E p \in ProposalIds : ValidExecution(p)

GatedGovernanceCallsFail ==
    /\ \A s \in Accounts, t \in Titles, d \in Descriptions :
        /\ createProposalCheck(s, t, d) # OK
        /\ Fails(createProposal(s, t, d))
    /\ \A s \in Accounts, p \in 0..MaxProposals, support \in BOOLEAN :
        /\ castVoteCheck(s, p) # OK
        /\ Fails(castVote(s, p, support))
    /\ \A s \in Accounts, p \in 0..MaxProposals :
        /\ executeProposalCheck(s, p) # OK
        /\ Fails(executeProposal(s, p))

ConfigValues == 1..2

\* C6 as stated: from a paused state no step changes votingPeriod,
\* executionDelay or quorum.
C6_Original ==
    [][govPaused => UNCHANGED <<votingPeriod, executionDelay, quorum>>]_vars

\* C6 as amended: while the governance engine is paused, createProposal,
\* castVote and executeProposal revert for every caller and argument, but the
\* configuration setters carry no pause gate: for an Admin and a positive
\* value setVotingPeriod and setQuorum still take effect, and so does
\* setExecutionDelay for any value.
C6_SettersIgnorePause ==
    govPaused =>
        /\ GatedGovernanceCallsFail
        /\ \A s \in Accounts, v \in ConfigValues :
            hasRole(govRoles, ADMIN_ROLE, s) =>
                /\ setVotingPeriodCheck(s, v) = OK
                /\ ENABLED (setVotingPeriod(s, v) /\ votingPeriod' = v)
                /\ setQuorumCheck(s, v) = OK
                /\ ENABLED (setQuorum(s, v) /\ quorum' = v)
                /\ setExecutionDelayCheck(s, v) = OK
                /\ ENABLED (setExecutionDelay(s, v) /\ executionDelay' = v)

\* C6 witness: the engine is paused and an Admin call changes the quorum.
C6_Witness ==
    /\ govPaused
    /\ \E s \in Accounts, v \in QuorumInputs :
        ENABLED (setQuorum(s, v) /\ quorum' # quorum)

RecordIds == 0..(MaxRecords - 1)

Overruled(recordId) ==
    recordId < Len(moderationRecords) /\ moderationRecords[recordId + 1].isOverruled

OverruledEvents(recordId) ==
    {e \in BagToSet(modEvents) : e.name = "ModerationOverruled" /\ e.recordId = recordId}

OverruleStays(recordId) ==
    /\ Overruled(recordId)'
    /\ moderationRecords'[recordId + 1].reason = moderationRecords[recordId + 1].reason
    /\ EventCount(modEvents, OverruledEvents(recordId)) = 1
    /\ EventCount(modEvents', OverruledEvents(recordId)') = 1

\* C8: overrule is strictly one-shot.  Once a record is overruled it stays
\* overruled with the same reason and it was overruled exactly once; every
\* later overruleModeration of it reverts, and a call that gets past the
\* onlyRole(ADMIN_ROLE) and whenNotPaused modifiers (the operation's stated
\* requirements) reverts with "Already overruled" whatever the reason, the
\* empty one included, because that require precedes the reason check.
C8_OverruleOneShot ==
    [][\A id \in RecordIds :
        Overruled(id) =>
            /\ OverruleStays(id)
            /\ \A s \in Accounts, reason \in Reasons :
                /\ overruleModerationCheck(s, id, reason) # OK
                /\ Fails(overruleModeration(s, id, reason))
                /\ (hasRole(modRoles, ADMIN_ROLE, s) /\ ~modPaused) =>
                    overruleModerationCheck(s, id, reason) = "Already overruled"]_vars

\* C8 witness: an overruled record in a ledger that is not paused, where an
\* Admin's overrule without a reason is refused for the record's state.
C8_Witness ==
    \E id \in RecordIds, s \in Accounts :
        /\ Overruled(id)
        /\ overruleModerationCheck(s, id, "") = "Already overruled"

ContentModeratedEvents(recordId) ==
    {e \in BagToSet(modEvents) : e.name = "ContentModerated" /\ e.recordId = recordId}

AllContentModeratedEvents ==
    {e \in BagToSet(modEvents) : e.name = "ContentModerated"}

\* One step of the ledger as the record log sees it.
C9_LogStep ==
    /\ getTotalRecords' >= getTotalRecords
    /\ \A k \in 1..Len(moderationRecords) :
        /\ moderationRecords'[k].contentId = moderationRecords[k].contentId
        /\ moderationRecords'[k].timestamp = moderationRecords[k].timestamp
    /\ getTotalRecords' > getTotalRecords =>
        /\ getTotalRecords' = getTotalRecords + 1
        /\ \A k \in 1..Len(moderationRecords) : moderationRecords'[k] = moderationRecords[k]
        /\ \E id \in {getTotalRecords} :
            /\ EventCount(modEvents, ContentModeratedEvents(id)) = 0
            /\ EventCount(modEvents', ContentModeratedEvents(id)') = 1
    /\ EventCount(modEvents, AllContentModeratedEvents) = getTotalRecords
    /\ EventCount(modEvents', AllContentModeratedEvents') = getTotalRecords'
    /\ \A id \in 0..MaxRecords :
        EventCount(modEvents', ContentModeratedEvents(id)') =
            IF id < getTotalRecords' THEN 1 ELSE 0

\* C9: the record log is append-only with sequential ids.  getTotalRecords
\* never decreases and equals the number of accepted addRecord calls (one
\* ContentModerated event each); the k-th accepted addRecord, counted from 0,
\* is given id k; and a step that adds a record changes no field of the
\* records already stored.
C9_AppendOnlyLog == [][C9_LogStep]_vars

\* C9 witness: two records are stored, with ids 0 and 1.
C9_Witness ==
    /\ getTotalRecords = 2
    /\ EventCount(modEvents, ContentModeratedEvents(0)) = 1
    /\ EventCount(modEvents, ContentModeratedEvents(1)) = 1

\* C10: round trip.  When addModerationRecord accepts a submission,
\* getModerationRecord of the returned id yields exactly the submitted
\* contentId, contentHash, isFlagged, categories, confidenceScore and reason,
\* the caller as moderator and isOverruled = FALSE.
C10_RoundTrip ==
    [][\A s \in Accounts, in \in RecordInputs, id \in {NextRecordId} :
        (/\ addModerationRecordCheck(s, in.contentId, in.contentHash,
                                     in.confidenceScore) = OK
         /\ AddRecordCall(s, in)) =>
            /\ ~getModerationRecord(id)'.failed
            /\ getModerationRecord(id)'.contentId = in.contentId
            /\ getModerationRecord(id)'.contentHash = in.contentHash
            /\ getModerationRecord(id)'.isFlagged = in.isFlagged
            /\ getModerationRecord(id)'.categories = in.categories
            /\ getModerationRecord(id)'.confidenceScore = in.confidenceScore
            /\ getModerationRecord(id)'.reason = in.reason
            /\ getModerationRecord(id)'.moderator = s
            /\ getModerationRecord(id)'.isOverruled = FALSE]_vars

\* C10 witness: a stored, not overruled record that reads back the flagged
\* submission with its two categories in order.
C10_Witness ==
    \E id \in RecordIds :
        /\ ~getModerationRecord(id).failed
        /\ getModerationRecord(id).contentId = "c2"
        /\ getModerationRecord(id).contentHash = "0xabc"
        /\ getModerationRecord(id).categories = <<"hate_speech", "violence">>
        /\ getModerationRecord(id).confidenceScore = 750
        /\ getModerationRecord(id).moderator = "acct2"
        /\ ~getModerationRecord(id).isOverruled

SetterInputs == 0..2

\* C11: role-gated mutation.  A caller without MODERATOR_ROLE cannot add a
\* record; a caller without ADMIN_ROLE cannot overrule, pause, unpause or set
\* votingPeriod, executionDelay or quorum; a caller without PROPOSER_ROLE
\* cannot create a proposal: each such call reverts and changes nothing.
\* castVote and executeProposal never revert for a missing role, and an open
\* vote of a token holder is accepted whatever roles the caller holds.
C11_RoleGatedMutation ==
    \A s \in Accounts :
        /\ ~hasRole(modRoles, MODERATOR_ROLE, s) =>
            \A in \in RecordInputs :
                /\ addModerationRecordCheck(s, in.contentId, in.contentHash,
                                            in.confidenceScore) = ErrAccess
                /\ Fails(AddRecordCall(s, in))
        /\ ~hasRole(modRoles, ADMIN_ROLE, s) =>
            /\ \A id \in 0..MaxRecords, reason \in Reasons :
                /\ overruleModerationCheck(s, id, reason) = ErrAccess
                /\ Fails(overruleModeration(s, id, reason))
            /\ modPauseCheck(s) = ErrAccess /\ Fails(modPause(s))
            /\ modUnpauseCheck(s) = ErrAccess /\ Fails(modUnpause(s))
        /\ ~hasRole(govRoles, ADMIN_ROLE, s) =>
            /\ \A v \in SetterInputs :
                /\ setVotingPeriodCheck(s, v) = ErrAccess /\ Fails(setVotingPeriod(s, v))
                /\ setExecutionDelayCheck(s, v) = ErrAccess /\ Fails(setExecutionDelay(s, v))
                /\ setQuorumCheck(s, v) = ErrAccess /\ Fails(setQuorum(s, v))
            /\ govPauseCheck(s) = ErrAccess /\ Fails(govPause(s))
            /\ govUnpauseCheck(s) = ErrAccess /\ Fails(govUnpause(s))
        /\ ~hasRole(govRoles, PROPOSER_ROLE, s) =>
            \A t \in Titles, d \in Descriptions :
                /\ createProposalCheck(s, t, d) = ErrAccess
                /\ Fails(createProposal(s, t, d))
        /\ \A p \in 0..MaxProposals :
            /\ castVoteCheck(s, p) # ErrAccess
            /\ executeProposalCheck(s, p) # ErrAccess
            /\ (ValidVote(s, p) /\ ~govPaused) =>
                /\ castVoteCheck(s, p) = OK
                /\ ENABLED (castVote(s, p, TRUE) /\ proposals' # proposals)

\* C11 witness: an account that was granted MODERATOR_ROLE and nothing else
\* has stored a record, and an account without any role in the governance
\* engine can vote on the open proposal.
C11_Witness ==
    /\ Len(moderationRecords) = 1
    /\ moderationRecords[1].moderator = "acct1"
    /\ ~hasRole(modRoles, ADMIN_ROLE, "acct1")
    /\ ~hasRole(modRoles, MODERATOR_ROLE, "owner")
    /\ \A r \in Roles : ~hasRole(govRoles, r, "acct2")
    /\ ~hasRole(govRoles, PROPOSER_ROLE, Deployer)
    /\ castVoteCheck("acct2", 0) = OK


\* C12: fail-closed atomicity.  Whenever the require chain of a mutating
\* function of either ledger refuses a call (missing role, paused, unknown
\* id, invalid argument, wrong lifecycle state), the transaction has no
\* successor state other than the state it started from: records, content
\* index, proposals, tallies, votes, configuration, roles, pause flags and
\* both event logs are all as before.
C12_FailClosed ==
    \A s \in Accounts :
        /\ \A in \in RecordInputs :
            addModerationRecordCheck(s, in.contentId, in.contentHash,
                                     in.confidenceScore) # OK
                => Fails(AddRecordCall(s, in))
        /\ \A id \in 0..MaxRecords, reason \in Reasons :
            overruleModerationCheck(s, id, reason) # OK
                => Fails(overruleModeration(s, id, reason))
        /\ modPauseCheck(s) # OK => Fails(modPause(s))
        /\ modUnpauseCheck(s) # OK => Fails(modUnpause(s))
        /\ addModeratorCheck(s) # OK =>
            \A a \in Accounts : Fails(addModerator(s, a)) /\ Fails(removeModerator(s, a))
        /\ \A t \in Titles, d \in Descriptions :
            createProposalCheck(s, t, d) # OK => Fails(createProposal(s, t, d))
        /\ \A p \in 0..MaxProposals :
            /\ castVoteCheck(s, p) # OK =>
                Fails(castVote(s, p, TRUE)) /\ Fails(castVote(s, p, FALSE))
            /\ executeProposalCheck(s, p) # OK => Fails(executeProposal(s, p))
        /\ \A v \in SetterInputs :
            /\ setVotingPeriodCheck(s, v) # OK => Fails(setVotingPeriod(s, v))
            /\ setExecutionDelayCheck(s, v) # OK => Fails(setExecutionDelay(s, v))
            /\ setQuorumCheck(s, v) # OK => Fails(setQuorum(s, v))
        /\ govPauseCheck(s) # OK => Fails(govPause(s))
        /\ govUnpauseCheck(s) # OK => Fails(govUnpause(s))
        /\ addProposerCheck(s) # OK =>
            \A a \in Accounts : Fails(addProposer(s, a)) /\ Fails(removeProposer(s, a))

\* C12 witness: calls are refused for a lifecycle reason and for a missing
\* voting power after earlier calls were committed: the record is overruled,
\* the proposal is open with one vote, and the deployer holds no token.
C12_Witness ==
    /\ overruleModerationCheck(Deployer, 0, "acceptable") = "Already overruled"
    /\ castVoteCheck("acct1", 0) = "Already voted"
    /\ castVoteCheck(Deployer, 0) = "No voting power"
    /\ executeProposalCheck("acct2", 0) = "Voting has not ended"


C13_WindowStep ==
    \A p \in ProposalIds :
        p < proposalCount =>
            /\ \A s \in Accounts :
                /\ now > proposals[p].endTime =>
                    /\ castVoteCheck(s, p) # OK
                    /\ Fails(castVote(s, p, TRUE))
                    /\ Fails(castVote(s, p, FALSE))
                    /\ ~govPaused => castVoteCheck(s, p) = "Voting has ended"
                /\ (ValidVote(s, p) /\ ~govPaused) =>
                    /\ castVoteCheck(s, p) = OK
                    /\ ENABLED (castVote(s, p, TRUE) /\ proposals'[p].votes[s] = VoteFor)
                    /\ ENABLED (castVote(s, p, FALSE) /\ proposals'[p].votes[s] = VoteAgainst)
            /\ now > proposals[p].endTime =>
                /\ proposals'[p].forVotes = proposals[p].forVotes
                /\ proposals'[p].againstVotes = proposals[p].againstVotes
                /\ proposals'[p].votes = proposals[p].votes
            /\ proposals'[p].endTime = proposals[p].endTime

\* C13: voting window.  castVote is accepted only while now <= endTime, the
\* instant now = endTime included (for a token holder who has not voted, the
\* engine not paused); once now > endTime every castVote reverts, with
\* "Voting has ended" when the engine is not paused, and the proposal's
\* forVotes, againstVotes and recorded votes never change again.
C13_VotingWindow == [][C13_WindowStep]_vars

\* C13 witness: one proposal is at the last instant of its window, a vote on
\* it still being accepted, while another one with votes is past its window.
C13_Witness ==
    \E p \in ProposalIds, q \in ProposalIds :
        /\ p < proposalCount /\ q < proposalCount
        /\ now = proposals[p].endTime
        /\ castVoteCheck("acct2", p) = OK
        /\ now > proposals[q].endTime
        /\ TotalVotes(q) > 0
        /\ castVoteCheck("acct2", q) = "Voting has ended"


C15_Original ==
    [][\A p \in ProposalIds :
        p < proposalCount =>
            /\ proposals'[p].endTime = proposals[p].endTime
            /\ quorum' # quorum =>
                \A s \in Accounts :
                    executeProposalCheck(s, p)' = executeProposalCheck(s, p)]_vars

C15_ConfigStep ==
    /\ \A p \in ProposalIds :
        p < proposalCount =>
            /\ proposals'[p].startTime = proposals[p].startTime
            /\ proposals'[p].endTime = proposals[p].endTime
            /\ \A s \in Accounts :
                (~govPaused /\ now > proposals[p].endTime /\ ~proposals[p].executed) =>
                    /\ executeProposalCheck(s, p) = OK <=> TotalVotes(p) >= quorum
                    /\ executeProposalCheck(s, p) = "Quorum not reached"
                            <=> TotalVotes(p) < quorum
    /\ proposalCount' # proposalCount =>
        /\ proposalCount' = proposalCount + 1
        /\ proposals'[proposalCount].startTime = now
        /\ proposals'[proposalCount].endTime = now + votingPeriod

\* C15 as amended: setVotingPeriod is not retroactive: a new proposal gets
\* endTime = now + votingPeriod with the votingPeriod in force at its
\* creation, and no step changes the startTime or endTime of an existing
\* proposal.  setQuorum is retroactive: executeProposal measures the votes of
\* every proposal, older ones included, against the quorum in force when it
\* is called.
C15_ConfigEffect == [][C15_ConfigStep]_vars

\* C15 witness: a proposal keeps the three-day window it was created with
\* although votingPeriod is now different, and it was executed with fewer
\* votes than the quorum the engine started with.
C15_Witness ==
    \E p \in ProposalIds :
        /\ p < proposalCount
        /\ proposals[p].endTime - proposals[p].startTime = InitialVotingPeriod
        /\ votingPeriod # InitialVotingPeriod
        /\ proposals[p].executed
        /\ TotalVotes(p) < InitialQuorum
        /\ TotalVotes(p) >= quorum


\* Every transaction the account s can send to the moderation ledger.
ModCallBy(s) ==
    \/ \E r \in ModRoleInputs, a \in Accounts :
        modGrantRole(s, r, a) \/ modRevokeRole(s, r, a) \/ modRenounceRole(s, r, a)
    \/ \E a \in Accounts : addModerator(s, a) \/ removeModerator(s, a)
    \/ modPause(s) \/ modUnpause(s)
    \/ \E in \in RecordInputs : AddRecordCall(s, in)
    \/ \E id \in 0..MaxRecords, reason \in Reasons : overruleModeration(s, id, reason)

\* Every transaction the account s can send to the governance engine.
GovCallBy(s) ==
    \/ \E r \in GovRoleInputs, a \in Accounts :
        govGrantRole(s, r, a) \/ govRevokeRole(s, r, a) \/ govRenounceRole(s, r, a)
    \/ \E a \in Accounts : addProposer(s, a) \/ removeProposer(s, a)
    \/ govPause(s) \/ govUnpause(s)
    \/ \E t \in Titles, d \in Descriptions : createProposal(s, t, d)
    \/ \E p \in 0..MaxProposals, support \in BOOLEAN : castVote(s, p, support)
    \/ \E p \in 0..MaxProposals : executeProposal(s, p)
    \/ \E v \in SetterInputs :
        setVotingPeriod(s, v) \/ setExecutionDelay(s, v) \/ setQuorum(s, v)

\* C16 as stated: the account that initialized a ledger holds Admin in it in
\* every reachable state.
C16_Original ==
    /\ hasRole(modRoles, ADMIN_ROLE, Deployer)
    /\ hasRole(govRoles, ADMIN_ROLE, Deployer)

DeployerInitialRoles ==
    /\ hasRole(modRoles, ADMIN_ROLE, Deployer)
    /\ hasRole(modRoles, DEFAULT_ADMIN_ROLE, Deployer)
    /\ hasRole(govRoles, ADMIN_ROLE, Deployer)
    /\ hasRole(govRoles, DEFAULT_ADMIN_ROLE, Deployer)
    /\ hasRole(govRoles, PROPOSER_ROLE, Deployer)

C16_DeployerStep ==
    /\ (hasRole(modRoles, ADMIN_ROLE, Deployer) /\ ~hasRole(modRoles', ADMIN_ROLE, Deployer)) =>
        /\ modRoles' = revokeRole(modRoles, ADMIN_ROLE, Deployer)
        /\ UNCHANGED <<now, balanceOf, dao, votingVars, modPaused, moderationRecords,
                       contentToRecords, modEvents, govVars>>
        /\ \A s \in Accounts \ {Deployer} :
            ~hasRole(modRoles, DEFAULT_ADMIN_ROLE, s) =>
                ~ENABLED (ModCallBy(s) /\ ~hasRole(modRoles', ADMIN_ROLE, Deployer))
        /\ ENABLED (modRenounceRole(Deployer, ADMIN_ROLE, Deployer)
                        /\ ~hasRole(modRoles', ADMIN_ROLE, Deployer))
    /\ (hasRole(govRoles, ADMIN_ROLE, Deployer) /\ ~hasRole(govRoles', ADMIN_ROLE, Deployer)) =>
        /\ govRoles' = revokeRole(govRoles, ADMIN_ROLE, Deployer)
        /\ UNCHANGED <<now, balanceOf, dao, votingVars, modVars, govPaused, proposalCount, proposals,
                       votingPeriod, executionDelay, quorum, govEvents>>
        /\ \A s \in Accounts \ {Deployer} :
            ~hasRole(govRoles, DEFAULT_ADMIN_ROLE, s) =>
                ~ENABLED (GovCallBy(s) /\ ~hasRole(govRoles', ADMIN_ROLE, Deployer))
        /\ ENABLED (govRenounceRole(Deployer, ADMIN_ROLE, Deployer)
                        /\ ~hasRole(govRoles', ADMIN_ROLE, Deployer))

\* C16 as amended: in the initial state the account that initialized a
\* ledger holds Admin in it (and Proposer in the governance engine).  It
\* keeps Admin through every operation except two: it can renounce Admin
\* itself (renounceRole), and a holder of DEFAULT_ADMIN_ROLE, which at first
\* is only the initializer, can revoke it (revokeRole); such a step changes
\* nothing else, and in the state it is taken from no call by any other
\* account could have taken Admin from the initializer.
C16_DeployerAdmin == DeployerInitialRoles /\ [][C16_DeployerStep]_vars

\* C16 witness: the initializer of the moderation ledger no longer holds
\* Admin there, while it still does in the governance engine, where a
\* proposal was created.
C16_Witness ==
    /\ ~hasRole(modRoles, ADMIN_ROLE, Deployer)
    /\ hasRole(govRoles, ADMIN_ROLE, Deployer)
    /\ proposalCount = 1


Gains(roles, role, a) == ~hasRole(roles, role, a) /\ hasRole(roles', role, a)

Loses(roles, role, a) == hasRole(roles, role, a) /\ ~hasRole(roles', role, a)

EventsNamed(events, name) == {e \in BagToSet(events) : e.name = name}

ProposalCreatedEvents(p) ==
    {e \in BagToSet(govEvents) : e.name = "ProposalCreated" /\ e.proposalId = p}

OverruledRecords == {id \in RecordIds : Overruled(id)}

RecordedVotes ==
    {pa \in ProposalIds \X Accounts :
        pa[1] < proposalCount /\ proposals[pa[1]].votes[pa[2]] # VoteNone}

ExecutedProposals == {p \in ProposalIds : p < proposalCount /\ proposals[p].executed}

\* C18: events match committed transitions one-to-one.  The log of each
\* ledger holds exactly one ContentModerated event per record, one
\* ModerationOverruled per overruled record, one ProposalCreated per
\* proposal, one VoteCast per recorded (proposal, voter) vote and one
\* ProposalExecuted per executed proposal, each with the id (and vote, or
\* outcome) of its transition, and no event for anything else.
C18_EventsMatchTransitions ==
    /\ EventCount(modEvents, EventsNamed(modEvents, "ContentModerated")) = getTotalRecords
    /\ EventCount(modEvents, EventsNamed(modEvents, "ModerationOverruled"))
            = Cardinality(OverruledRecords)
    /\ BagCardinality(modEvents) = getTotalRecords + Cardinality(OverruledRecords)
    /\ \A id \in 0..MaxRecords :
        /\ EventCount(modEvents, ContentModeratedEvents(id))
                = IF id < getTotalRecords THEN 1 ELSE 0
        /\ EventCount(modEvents, OverruledEvents(id))
                = IF id \in OverruledRecords THEN 1 ELSE 0
        /\ \A e \in ContentModeratedEvents(id) :
            /\ e.contentId = moderationRecords[id + 1].contentId
            /\ e.timestamp = moderationRecords[id + 1].timestamp
        /\ \A e \in OverruledEvents(id) : e.reason = moderationRecords[id + 1].reason
    /\ EventCount(govEvents, EventsNamed(govEvents, "ProposalCreated")) = getProposalCount
    /\ EventCount(govEvents, EventsNamed(govEvents, "VoteCast")) = Cardinality(RecordedVotes)
    /\ EventCount(govEvents, EventsNamed(govEvents, "ProposalExecuted"))
            = Cardinality(ExecutedProposals)
    /\ BagCardinality(govEvents)
            = getProposalCount + Cardinality(RecordedVotes) + Cardinality(ExecutedProposals)
    /\ \A p \in 0..MaxProposals :
        /\ EventCount(govEvents, ProposalCreatedEvents(p))
                = IF p < getProposalCount THEN 1 ELSE 0
        /\ EventCount(govEvents, ExecutedEvents(p))
                = IF p \in ExecutedProposals THEN 1 ELSE 0
        /\ \A e \in ProposalCreatedEvents(p) :
            e.proposer = proposals[p].proposer /\ e.endTime = proposals[p].endTime
        /\ \A e \in ExecutedEvents(p) : e.passed = proposals[p].passed
        /\ \A a \in Accounts :
            /\ EventCount(govEvents, VoteCastEvents(p, a))
                    = IF <<p, a>> \in RecordedVotes THEN 1 ELSE 0
            /\ \A e \in VoteCastEvents(p, a) : e.vote = proposals[p].votes[a]

\* C18 witness: every kind of transition has been committed: a record was
\* added and overruled, and a proposal was created, voted on by two accounts
\* and executed.
C18_Witness ==
    /\ getTotalRecords = 1
    /\ OverruledRecords = {0}
    /\ getProposalCount = 1
    /\ Cardinality(RecordedVotes) = 2
    /\ ExecutedProposals = {0}
    /\ BagCardinality(modEvents) = 2
    /\ BagCardinality(govEvents) = 4


CanonicalStatuses ==
    {"pending", "active", "canceled", "defeated", "succeeded", "queued", "expired",
     "executed"}

\* C19 as stated: _mapStatus never raises, whatever the variant and the raw
\* status (a number, a string or a missing value), and what it returns is a
\* canonical status or unknown.
C19_Original ==
    dao.call.op = "_mapStatus" =>
        /\ dao.result.kind = "return"
        /\ dao.result.value.t = "string"
        /\ dao.result.value.s \in CanonicalStatuses \cup {"unknown"}

\* A lookup for which the backend holds no voting-power record: there is no
\* member entry or the lookup yields nothing, or the variant is custom and
\* no lookup is configured.
NoVotingPowerRecord ==
    /\ dao.call.op = "getVotingPower"
    /\ Truthy(dao.call.account) \/ Truthy(dao.currentAccount)
    /\ \/ dao.call.response \in {Return(Undefined), Return(Null)}
       \/ toLowerCase(dao.daoType) = "custom" /\ ~dao.customLookup

\* C20 as stated: for every variant getVotingPower returns 0 and does not
\* fail when the backend has no voting-power record for the principal.
C20_Original ==
    NoVotingPowerRecord => dao.result = Return(Str("0"))



\* A proposal the creation constraints reject: an empty title, a title of
\* more than 256 characters, an empty description, or no action.
BreaksCreationConstraint(proposal) ==
    /\ proposal.t = "object"
    /\ \/ proposal.title = Str("")
       \/ proposal.title.t = "string" /\ Len(proposal.title.s) > 256
       \/ proposal.description = Str("")
       \/ proposal.actions = Arr(0)

\* A proposal that meets all of them.
MeetsCreationConstraints(proposal) ==
    /\ proposal.t = "object"
    /\ proposal.title.t = "string" /\ Len(proposal.title.s) \in 1..256
    /\ proposal.description.t = "string" /\ proposal.description.s # ""
    /\ proposal.actions.t = "array" /\ proposal.actions.length >= 1

AllServices ==
    {DAOService(type, customLookup, currentAccount) :
        type \in DaoTypes, customLookup \in BOOLEAN, currentAccount \in AccountArgs}

\* C21: createProposal rejects a proposal with an empty title, a title longer
\* than 256 characters, an empty description or no action, with the same
\* outcome for every backend variant and before any backend call is made; a
\* proposal that meets the constraints passes validation and the call goes
\* on to the voting-power lookup.
C21_ValidationFirst ==
    dao.call.op = "createProposal" =>
        LET proposal == dao.call.proposal
        IN  /\ BreaksCreationConstraint(proposal) =>
                /\ dao.result.kind = "throw"
                /\ dao.backendCalls = <<>>
                /\ \A service \in AllServices, powerResponse \in PowerResponses, adapterResponse \in AdapterResponses :
                       serviceCreateProposal(service, proposal, powerResponse,
                                             adapterResponse) = Run(dao.result, <<>>)
            /\ MeetsCreationConstraints(proposal) =>
                /\ validateProposal(proposal) = Return(Undefined)
                /\ getVotingPowerCalls(dao, Undefined, dao.call.powerResponse) # <<>>
                   => dao.backendCalls # <<>>
                /\ (/\ getVotingPower(dao, Undefined, dao.call.powerResponse)
                            \in {Return(Str("5")), Return(Str("100"))}
                    /\ dao.call.adapterResponse.kind = "return"
                    /\ getAdapter(dao).kind = "return")
                   => dao.result = dao.call.adapterResponse

\* A title of 257 characters was refused on the moloch variant.
C21_Witness ==
    /\ dao.call.op = "createProposal"
    /\ dao.daoType = "moloch"
    /\ dao.call.proposal.t = "object"
    /\ dao.call.proposal.title.t = "string"
    /\ Len(dao.call.proposal.title.s) = 257
    /\ dao.call.proposal.actions = Arr(1)
    /\ dao.call.proposal.description = Str("Pay the auditors")
    /\ dao.result = Throw("Proposal creation failed: Proposal title exceeds 256 character limit")
    /\ dao.backendCalls = <<>>

\* The operations of the adapter that reach a backend.
BackendOperations ==
    {"getProposal", "getProposals", "createProposal", "castVote", "delegateVotes",
     "hasVoted", "getProposalState", "executeProposal"}

\* The context each operation puts in front of an error it rethrows.
ErrorContexts ==
    {"Failed to get proposal", "Failed to get proposals", "Proposal creation failed",
     "Voting failed", "Vote delegation failed", "Proposal execution failed"}

\* C22: when a backend call made by an adapter operation fails, the operation
\* fails too, with an error that wraps the backend's; it never returns
\* normally.
C22_Original ==
    dao.call.op \in BackendOperations =>
        \A i \in DOMAIN dao.backendCalls :
            dao.backendCalls[i].response.kind = "throw" =>
                /\ dao.result.kind = "throw"
                /\ \E context \in ErrorContexts :
                       dao.result.error = context \o ": " \o dao.backendCalls[i].response.error

SupportedVariants == {"compound", "aragon", "openzeppelin", "moloch", "custom"}

\* The call in dao.call went through its own checks, so that only the
\* variant's implementation is left to answer it.
ReachesVariant ==
    CASE dao.call.op \in {"getProposals", "getProposal", "hasVoted"} -> TRUE
      [] dao.call.op = "createProposal" ->
            /\ validateProposal(dao.call.proposal).kind = "return"
            /\ getVotingPower(dao, Undefined, dao.call.powerResponse)
                    \in {Return(Str("5")), Return(Str("100"))}
      [] dao.call.op = "castVote" ->
            /\ dao.call.support \in {Num(0), Num(1), Num(2)}
            /\ dao.call.lookup = Return(Bool(FALSE))
      [] dao.call.op = "delegateVotes" -> isAddress(dao.call.delegatee)
      [] OTHER -> FALSE

\* C23: on every supported variant each capability (getProposals,
\* getProposal, createProposal, castVote, delegate, hasVoted) dispatches to
\* an implementation of that variant.
C23_Original ==
    (toLowerCase(dao.daoType) \in SupportedVariants /\ ReachesVariant) =>
        /\ dao.backendCalls # <<>>
        /\ dao.result.kind = "throw" =>
               \E i \in DOMAIN dao.backendCalls : dao.backendCalls[i].response.kind = "throw"

\* C30: for every daoType getAdapter accepts, _mapStatus decodes a numeric
\* status with the vocabulary of the variant getAdapter dispatches to, and
\* never with the vocabulary of another variant.
C30_Original ==
    (dao.call.op = "_mapStatus" /\ dao.call.status.t = "number"
     /\ getAdapter(dao).kind = "return") =>
        LET variant == toLowerCase(dao.daoType)
            code == dao.call.status.n
        IN  IF variant \in DOMAIN statusMaps /\ code \in 0..(Len(statusMaps[variant]) - 1)
            THEN dao.result = Return(Str(statusMaps[variant][code + 1]))
            ELSE dao.result = Return(Str("unknown"))

\* The ids of the stored records whose contentId is the given one.
RecordsOf(contentId) ==
    {id \in 0..(Len(moderationRecords) - 1) : moderationRecords[id + 1].contentId = contentId}

ListedIds(contentId) ==
    {getRecordsForContent(contentId)[i] : i \in DOMAIN getRecordsForContent(contentId)}

\* C24: getRecordsForContent(contentId) lists exactly the ids of the records
\* stored with that contentId, in increasing order and without duplicates;
\* every record id is in exactly one list, and a contentId without records
\* has the empty list.
C24_ContentIndex ==
    /\ \A contentId \in ContentIds :
        LET list == getRecordsForContent(contentId)
        IN  /\ ListedIds(contentId) = RecordsOf(contentId)
            /\ \A i, j \in DOMAIN list : i < j => list[i] < list[j]
            /\ RecordsOf(contentId) = {} => list = << >>
    /\ \A id \in 0..(Len(moderationRecords) - 1) :
        Cardinality({contentId \in ContentIds : id \in ListedIds(contentId)}) = 1

\* Two records were stored for c1 and none for c2.
C24_Witness ==
    /\ getRecordsForContent("c1") = <<0, 1>>
    /\ getRecordsForContent("c2") = << >>
    /\ Len(moderationRecords) = 2

\* The fields of a record an overrule leaves alone.
KeptFields(record) ==
    [contentId |-> record.contentId, contentHash |-> record.contentHash,
     isFlagged |-> record.isFlagged, categories |-> record.categories,
     confidenceScore |-> record.confidenceScore, moderator |-> record.moderator,
     timestamp |-> record.timestamp]

C25_Step ==
    /\ Len(moderationRecords') >= Len(moderationRecords)
    /\ \A id \in 0..(Len(moderationRecords) - 1) :
        /\ KeptFields(moderationRecords'[id + 1]) = KeptFields(moderationRecords[id + 1])
        /\ (~moderationRecords[id + 1].isOverruled /\ moderationRecords'[id + 1].isOverruled) =>
            /\ Len(moderationRecords') = Len(moderationRecords)
            /\ \A other \in 0..(Len(moderationRecords) - 1) :
                   other # id => moderationRecords'[other + 1] = moderationRecords[other + 1]
            /\ contentToRecords' = contentToRecords
            /\ modRoles' = modRoles
            /\ modPaused' = modPaused

\* C25: an overrule changes only isOverruled and reason of the record it
\* names; that record's other fields, every other record, the content index
\* and the number of records stay as they were, and no operation removes a
\* record or rewrites its other fields.
C25_OverruleFrame == [][C25_Step]_vars

\* Record 0 is overruled with its other fields as stored, next to record 1.
C25_Witness ==
    /\ Len(moderationRecords) = 2
    /\ moderationRecords[1].isOverruled
    /\ moderationRecords[1].reason = "acceptable"
    /\ moderationRecords[1].isFlagged
    /\ ~moderationRecords[2].isOverruled

\* For every created proposal: no state lets both a vote and an execution
\* through; at the end time a vote passes and an execution does not, after
\* it the other way round.
C27_Windows ==
    \A p \in ProposalIds :
        p < proposalCount =>
            /\ \A s, t \in Accounts :
                   ~(castVoteCheck(s, p) = OK /\ executeProposalCheck(t, p) = OK)
            /\ now = proposals[p].endTime =>
                /\ \A t \in Accounts : executeProposalCheck(t, p) # OK
                /\ \A s \in Accounts :
                       (~govPaused /\ proposals[p].votes[s] = VoteNone /\ balanceOf[s] > 0)
                           => castVoteCheck(s, p) = OK
            /\ now > proposals[p].endTime =>
                /\ \A s \in Accounts : castVoteCheck(s, p) # OK
                /\ \A t \in Accounts :
                       (/\ ~govPaused
                        /\ ~proposals[p].executed
                        /\ proposals[p].forVotes + proposals[p].againstVotes >= quorum)
                           => executeProposalCheck(t, p) = OK

\* A step tallies a vote only inside the window and executes only after it,
\* and leaves an executed proposal's votes, tallies and outcome as they are.
C27_Step ==
    \A p \in ProposalIds :
        p < proposalCount =>
            /\ (proposals'[p].votes # proposals[p].votes
                \/ proposals'[p].forVotes # proposals[p].forVotes
                \/ proposals'[p].againstVotes # proposals[p].againstVotes)
                   => (now <= proposals[p].endTime /\ ~proposals[p].executed)
            /\ (~proposals[p].executed /\ proposals'[p].executed)
                   => now > proposals[p].endTime
            /\ proposals[p].executed => proposals'[p] = proposals[p]

\* C27: castVote and executeProposal are never both enabled for a proposal:
\* at now = endTime a vote is allowed and execution refused, at now > endTime
\* the reverse; no vote is tallied after execution and the tallies that
\* decided passed stay as they were.
C27_DisjointWindows == C27_Windows /\ [][C27_Windows' /\ C27_Step]_vars

\* Proposal 0 passed and was executed while an account with voting power
\* had not voted.
C27_Witness ==
    /\ proposalCount > 0
    /\ proposals[0].executed
    /\ proposals[0].passed
    /\ now > proposals[0].endTime
    /\ \E s \in Accounts : proposals[0].votes[s] = VoteNone /\ balanceOf[s] > 0

RECURSIVE SumOf(_, _)
SumOf(f, S) ==
    IF S = {} THEN 0
    ELSE LET x == CHOOSE y \in S : TRUE IN f[x] + SumOf(f, S \ {x})

\* The balance a voter had when it voted on p, as its VoteCast event holds it.
WeightAtVote(p) ==
    [a \in Accounts |->
        IF VoteCastEvents(p, a) = {} THEN 0
        ELSE (CHOOSE e \in VoteCastEvents(p, a) : TRUE).weight]

Voters(p, vote) == {a \in Accounts : proposals[p].votes[a] = vote}

C26_Tally ==
    \A p \in ProposalIds :
        p < proposalCount =>
            /\ proposals[p].forVotes = SumOf(WeightAtVote(p), Voters(p, VoteFor))
            /\ proposals[p].againstVotes = SumOf(WeightAtVote(p), Voters(p, VoteAgainst))
            /\ \A a \in Accounts :
                   proposals[p].votes[a] # VoteNone =>
                       /\ EventCount(govEvents, VoteCastEvents(p, a)) = 1
                       /\ WeightAtVote(p)[a] > 0

C26_Step ==
    \A p \in ProposalIds :
        p < proposalCount =>
            LET voted == {a \in Accounts : proposals'[p].votes[a] # proposals[p].votes[a]}
            IN  /\ voted = {} =>
                    /\ proposals'[p].forVotes = proposals[p].forVotes
                    /\ proposals'[p].againstVotes = proposals[p].againstVotes
                /\ \A a \in voted :
                    /\ voted = {a}
                    /\ proposals[p].votes[a] = VoteNone
                    /\ balanceOf[a] > 0
                    /\ WeightAtVote(p)'[a] = balanceOf[a]
                    /\ proposals'[p].forVotes = proposals[p].forVotes
                            + (IF proposals'[p].votes[a] = VoteFor THEN balanceOf[a] ELSE 0)
                    /\ proposals'[p].againstVotes = proposals[p].againstVotes
                            + (IF proposals'[p].votes[a] = VoteAgainst THEN balanceOf[a] ELSE 0)

\* C26: forVotes is the sum, over the principals recorded as For, of the
\* balance each had at the moment it voted, and againstVotes the same over
\* those recorded as Against; a principal with zero balance is never
\* recorded, and a later change of a voter's balance changes neither tally.
C26_TallyConsistency == C26_Tally /\ [][C26_Tally' /\ C26_Step]_vars

\* acct1 voted For with 50 tokens and has since given them away.
C26_Witness ==
    /\ proposalCount > 0
    /\ proposals[0].votes["acct1"] = VoteFor
    /\ proposals[0].forVotes = 50
    /\ balanceOf["acct1"] = 0

TotalSupply == SumOf(balanceOf, Accounts)

\* C28: forVotes + againstVotes of a proposal never exceeds the total supply
\* of the governance token, also when holders transfer tokens between votes.
C28_Original ==
    \A p \in ProposalIds :
        p < proposalCount => proposals[p].forVotes + proposals[p].againstVotes <= TotalSupply

\* C29: DAOService.castVote forwards no vote for an account that has
\* already voted on the proposal or has a vote submission in flight,
\* whatever the interleaving of overlapping calls and also when the
\* hasVoted lookup fails.
C29_Original ==
    [][governor'.forwarded > governor.forwarded
            => (~governor.voted /\ governor.inFlight = 0)]_vars
===========================================================================
